---- MODULE Spec2Model ----
(***************************************************************************)
(* A model of the WorldSim repository (Zephyrxx0/overclocked):             *)
(*   - Resource                  src/backend/simulation/resources.py       *)
(*   - Population                src/backend/simulation/population.py      *)
(*   - ClimateEvent/ClimateSystem src/backend/simulation/climate.py        *)
(*   - WorldModel (grid model)   src/backend/simulation/world.py           *)
(*   - the threaded runner       src/backend/simulation.py, backend/main.py*)
(*   - the asyncio runner        src/worldsim-backend/app/main.py          *)
(*                                                                         *)
(* Python floats are modelled as fixed-point numbers: a real r is the      *)
(* integer r * Scale, products are divided by Scale and truncated.         *)
(* Each subsystem has a specification of its own over the shared variable  *)
(* list; a specification leaves the other subsystems' variables unchanged. *)
(***************************************************************************)
EXTENDS Integers, Sequences, FiniteSets, TLC

VARIABLES
    lastOp,         \* the operation that produced the current state (history)
    \* ---- Resource (resources.py), one pool on its own
    res,
    \* ---- WorldModel (simulation/world.py)
    cfg,            \* self.cfg
    current_tick,   \* self.current_tick
    running,        \* self.running
    ended,          \* self.ended
    regions,        \* self.regions : key -> Region
    agents,         \* self.agents  : sequence of GovernorAgent
    active_events,  \* self.climate.active_events : key -> list of ClimateEvent
    epoch,          \* which of the two worlds' objects are live: reset() builds new ones
    \* ---- the asyncio runner (worldsim-backend/app/main.py)
    a_model,        \* sim.model: [gen, step_count]; gen counts the models made
    a_running,      \* sim.running
    a_sim_task,     \* sim.sim_task: an index of a_tasks, 0 is None
    a_tasks,        \* the _simulation_loop tasks created so far, each with its state
    a_queue,        \* sim.queue
    a_connections,  \* manager.connections
    a_produced,     \* number of snapshots produced so far (history)
    a_since_drain,  \* number of snapshots produced since the last drain (history)
    a_sent,         \* the payload of the last broadcast of _broadcast_loop (history)
    \* ---- the threaded runner (backend/simulation.py, backend/main.py)
    t_stop_event,   \* _stop_event.is_set()
    t_pause_event,  \* _pause_event.is_set()
    t_is_running,   \* _is_running
    t_threads,      \* the run_simulation threads started so far: [pc, tick]
    t_pending,      \* the queue.put coroutines handed to the loop and not yet done
    t_queue,        \* _state_queue
    t_clients,      \* _clients
    t_broadcaster,  \* broadcaster: [pc, targets, dead]
    t_limit,        \* the number of ticks a thread takes in the explored runs
    t_tick_at_pause,\* per thread, its model's tick when the last pause was called (history)
    t_resumed,      \* per thread, resumed since that pause and not ticked since (history)
    \* ---- one fan-out to the subscribers (broadcast_state, broadcaster, ConnectionManager.broadcast)
    f_subscribers,  \* the subscriber set
    f_before,       \* the subscriber set when the last fan-out started (history)
    f_failing,      \* the subscribers whose send raised in the last fan-out (history)
    f_received,     \* the subscribers whose send returned in the last fan-out (history)
    \* ---- one pass of _process_migration over a grid in an arbitrary state
    mg_regions,
    mg_agents,
    mg_pcfg,
    mg_prev,
    mg_key,
    \* ---- the snapshots of WorldSimModel.get_world_state and the lists they share with the model
    s_step,
    s_lists,
    s_trades,
    s_events,
    s_queue,
    s_put,
    \* ---- the two websocket endpoints and the messages one client sends to each
    e_open,
    e_subscribed,
    e_msg,
    e_reply,
    e_received,
    \* ---- one Population and the calls made on it (tick, emigrate, immigrate)
    p_pop,
    p_prev,
    p_arg,
    p_ret,
    p_calls,
    \* ---- the climate events of one region and the pools they act on, step by step
    c_regs,
    c_evs,
    c_hist,
    c_removed,
    c_prev_regs,
    c_prev_evs,
    c_tick,
    \* ---- the presidents of the asyncio runner and their exploration rate
    g_eps,
    g_prev_eps,
    g_last_action,
    g_decisions,
    g_actor,
    \* ---- the resources of the regions of WorldSimModel and its weather engine
    w_resources,
    w_infrastructure,
    w_morale,
    w_engine,
    w_step_count,
    \* ---- a world of the default SimConfig
    d_regions,
    d_agents,
    d_events,
    d_tick,
    d_running,
    d_ended,
    \* ---- broadcast_state suspended in a send while subscribers come and go
    b_subscriptions,
    b_iter,
    b_received,
    b_loop,
    b_broadcasts,
    \* ---- ClimateEngine of backend/simulation.py, with the history of its last tick
    ce_event_type,
    ce_duration,
    ce_next_event_in,
    ce_prev,
    ce_triggered,
    ce_drawn,
    ce_active,
    \* ---- one PresidentStrategy of backend/ai_strategy.py
    st_history,
    st_patience,
    st_calls,
    st_fuelled,
    \* ---- WorldModel of backend/simulation.py: its nations, the turns taken in the current step, tick and climate
    n_nations,
    n_acted,
    n_tick,
    n_climate

resVars   == <<res>>
worldVars == <<cfg, current_tick, running, ended, regions, agents,
               active_events, epoch>>
asyncVars == <<a_model, a_running, a_sim_task, a_tasks, a_queue, a_connections,
               a_produced, a_since_drain, a_sent>>
threadVars == <<t_stop_event, t_pause_event, t_is_running, t_threads, t_pending,
                t_queue, t_clients, t_broadcaster, t_limit, t_tick_at_pause,
                t_resumed>>
fanVars   == <<f_subscribers, f_before, f_failing, f_received>>

migVars == <<mg_regions, mg_agents, mg_pcfg, mg_prev, mg_key>>

snapVars == <<s_step, s_lists, s_trades, s_events, s_queue, s_put>>

endVars == <<e_open, e_subscribed, e_msg, e_reply, e_received>>

popVars == <<p_pop, p_prev, p_arg, p_ret, p_calls>>

cliVars == <<c_regs, c_evs, c_hist, c_removed, c_prev_regs, c_prev_evs, c_tick>>

agtVars == <<g_eps, g_prev_eps, g_last_action, g_decisions, g_actor>>

wthVars == <<w_resources, w_infrastructure, w_morale, w_engine, w_step_count>>

dfVars == <<d_regions, d_agents, d_events, d_tick, d_running, d_ended>>

bcVars == <<b_subscriptions, b_iter, b_received, b_loop, b_broadcasts>>

engVars == <<ce_event_type, ce_duration, ce_next_event_in, ce_prev, ce_triggered, ce_drawn, ce_active>>

stratVars == <<st_history, st_patience, st_calls, st_fuelled>>

natVars == <<n_nations, n_acted, n_tick, n_climate>>

\* what the actions of one subsystem leave unchanged: the other subsystems
othersW == <<asyncVars, threadVars, fanVars, migVars, snapVars, endVars, popVars, cliVars, agtVars, wthVars, dfVars, bcVars, engVars, stratVars, natVars>>
othersR == <<worldVars, asyncVars, threadVars, fanVars, migVars, snapVars, endVars, popVars, cliVars, agtVars, wthVars, dfVars, bcVars, engVars, stratVars, natVars>>
othersA == <<resVars, worldVars, threadVars, fanVars, migVars, snapVars, endVars, popVars, cliVars, agtVars, wthVars, dfVars, bcVars, engVars, stratVars, natVars>>
othersT == <<resVars, worldVars, asyncVars, fanVars, migVars, snapVars, endVars, popVars, cliVars, agtVars, wthVars, dfVars, bcVars, engVars, stratVars, natVars>>
othersF == <<resVars, worldVars, asyncVars, threadVars, migVars, snapVars, endVars, popVars, cliVars, agtVars, wthVars, dfVars, bcVars, engVars, stratVars, natVars>>
othersM == <<resVars, worldVars, asyncVars, threadVars, fanVars, snapVars, endVars, popVars, cliVars, agtVars, wthVars, dfVars, bcVars, engVars, stratVars, natVars>>
othersS == <<resVars, worldVars, asyncVars, threadVars, fanVars, migVars, endVars, popVars, cliVars, agtVars, wthVars, dfVars, bcVars, engVars, stratVars, natVars>>
othersE == <<resVars, worldVars, asyncVars, threadVars, fanVars, migVars, snapVars, popVars, cliVars, agtVars, wthVars, dfVars, bcVars, engVars, stratVars, natVars>>
othersP == <<resVars, worldVars, asyncVars, threadVars, fanVars, migVars, snapVars, endVars, cliVars, agtVars, wthVars, dfVars, bcVars, engVars, stratVars, natVars>>
othersC == <<resVars, worldVars, asyncVars, threadVars, fanVars, migVars, snapVars, endVars, popVars, agtVars, wthVars, dfVars, bcVars, engVars, stratVars, natVars>>
othersG == <<resVars, worldVars, asyncVars, threadVars, fanVars, migVars, snapVars, endVars, popVars, cliVars, wthVars, dfVars, bcVars, engVars, stratVars, natVars>>
othersH == <<resVars, worldVars, asyncVars, threadVars, fanVars, migVars, snapVars, endVars, popVars, cliVars, agtVars, dfVars, bcVars, engVars, stratVars, natVars>>
othersD == <<resVars, worldVars, asyncVars, threadVars, fanVars, migVars, snapVars, endVars, popVars, cliVars, agtVars, wthVars, bcVars, engVars, stratVars, natVars>>
othersB == <<resVars, worldVars, asyncVars, threadVars, fanVars, migVars, snapVars, endVars, popVars, cliVars, agtVars, wthVars, dfVars, engVars, stratVars, natVars>>
othersK == <<resVars, worldVars, asyncVars, threadVars, fanVars, migVars, snapVars, endVars, popVars, cliVars, agtVars, wthVars, dfVars, bcVars, stratVars, natVars>>
othersY == <<resVars, worldVars, asyncVars, threadVars, fanVars, migVars, snapVars, endVars, popVars, cliVars, agtVars, wthVars, dfVars, bcVars, engVars, natVars>>
othersN == <<resVars, worldVars, asyncVars, threadVars, fanVars, migVars, snapVars, endVars, popVars, cliVars, agtVars, wthVars, dfVars, bcVars, engVars, stratVars>>

vars      == <<lastOp, res, cfg, current_tick, running, ended, regions, agents,
               active_events, epoch, a_model, a_running, a_sim_task, a_tasks,
               a_queue, a_connections, a_produced, a_since_drain, a_sent,
               t_stop_event, t_pause_event, t_is_running, t_threads, t_pending,
               t_queue, t_clients, t_broadcaster, t_limit, t_tick_at_pause,
               t_resumed, f_subscribers, f_before, f_failing, f_received,
               mg_regions, mg_agents, mg_pcfg, mg_prev, mg_key,
               s_step, s_lists, s_trades, s_events, s_queue, s_put,
               e_open, e_subscribed, e_msg, e_reply, e_received,
               p_pop, p_prev, p_arg, p_ret, p_calls,
               c_regs, c_evs, c_hist, c_removed, c_prev_regs, c_prev_evs, c_tick,
               g_eps, g_prev_eps, g_last_action, g_decisions, g_actor,
               w_resources, w_infrastructure, w_morale, w_engine, w_step_count,
               d_regions, d_agents, d_events, d_tick, d_running, d_ended,
               b_subscriptions, b_iter, b_received, b_loop, b_broadcasts,
               ce_event_type, ce_duration, ce_next_event_in, ce_prev, ce_triggered, ce_drawn, ce_active,
               st_history, st_patience, st_calls, st_fuelled,
               n_nations, n_acted, n_tick, n_climate>>

----------------------------------------------------------------------------
\* Fixed-point arithmetic

Scale == 1000

Min(a, b) == IF a <= b THEN a ELSE b
Max(a, b) == IF a >= b THEN a ELSE b

\* a * b for two fixed-point numbers, truncated toward zero
Mul(a, b) == IF a * b >= 0 THEN (a * b) \div Scale ELSE -(((-a) * b) \div Scale)

----------------------------------------------------------------------------
\* Resource (resources.py)

\* Python's float is a binary floating-point number and every addition and
\* subtraction rounds to the nearest one, ties to the even mantissa.  The model
\* keeps FloatPrecision bits of mantissa: an integer of magnitude below
\* 2^FloatPrecision is exact, a larger one is rounded.
FloatPrecision == 13

RECURSIVE Pow2(_)
Pow2(n) == IF n = 0 THEN 1 ELSE 2 * Pow2(n - 1)

\* every integer of magnitude below FloatExact is a float
FloatExact == Pow2(FloatPrecision)

\* the distance between two neighbouring floats at magnitude a
RECURSIVE Spacing(_, _)
Spacing(a, s) == IF a < FloatExact * s THEN s ELSE Spacing(a, 2 * s)

\* the float nearest to x
fl(x) ==
    LET a == IF x >= 0 THEN x ELSE -x
        s == Spacing(a, 1)
        q == a \div s
        r == a % s
        n == IF 2 * r < s THEN q
             ELSE IF 2 * r > s THEN q + 1
             ELSE IF q % 2 = 0 THEN q ELSE q + 1
    IN  IF x >= 0 THEN n * s ELSE -(n * s)

\* Resource.__post_init__: current_value = initial_value
NewResource(initial, maxv, regen) ==
    [current_value |-> initial, max_value |-> maxv, regeneration_rate |-> regen]

\* Resource.consume: returns <<resource after, actual_consumed>>
consume(r, amount) ==
    LET actual_consumed == Min(amount, r.current_value)
    IN  <<[r EXCEPT !.current_value = fl(r.current_value - actual_consumed)],
          actual_consumed>>

\* Resource.regenerate
regenerate(r) ==
    LET actual_regenerated ==
            Min(r.regeneration_rate, fl(r.max_value - r.current_value))
    IN  [r EXCEPT !.current_value = fl(r.current_value + actual_regenerated)]

\* Resource.apply_event
apply_event(r, change) ==
    [r EXCEPT !.current_value =
         Max(0, Min(r.max_value, fl(r.current_value + change)))]

----------------------------------------------------------------------------
\* Population (population.py)

NewPopulation(count, health, cap) ==
    [count |-> count, health |-> health, max_capacity |-> cap,
     births |-> 0, deaths |-> 0, migrants_in |-> 0, migrants_out |-> 0]

\* Population.is_alive
is_alive(p) == p.count > 0

\* Population.density
density(p) == (p.count * Scale) \div Max(1, p.max_capacity)

\* the clamp of health at the end of the health dynamics of Population.tick
clamp_health_low_only(h) == Min(Scale, h)

clamp_health(h) == Max(0, Min(Scale, h))

\* a tick in which hunger costs health only when water is short too (the
\* mutation of tick)
tick_hunger_needs_thirst(p, food_available, water_available, food_needed, water_needed, pcfg) ==
    IF p.count <= 0
    THEN <<[p EXCEPT !.health = 0, !.births = 0, !.deaths = 0], 0, 0>>
    ELSE
    LET food_ratio  == Min(Scale, (food_available * Scale) \div Max(Scale, food_needed))
        water_ratio == Min(Scale, (water_available * Scale) \div Max(Scale, water_needed))
        food_consumed  == Min(food_available, food_needed)
        water_consumed == Min(water_available, water_needed)
        h1 == IF food_ratio < 500 /\ water_ratio < 500
              THEN p.health - Mul(pcfg.health_decay_no_food, Scale - food_ratio)
              ELSE p.health
        h2 == IF water_ratio < 500
              THEN h1 - Mul(pcfg.health_decay_no_water, Scale - water_ratio)
              ELSE h1
        h3 == IF food_ratio > 700 /\ water_ratio > 700
              THEN h2 + pcfg.health_regen_rate
              ELSE h2
        health == clamp_health(h3)
        d1 == pcfg.base_death_rate
        d2 == IF food_ratio < 300
              THEN d1 + Mul(pcfg.starvation_death_rate, Scale - food_ratio)
              ELSE d1
        d3 == IF water_ratio < 300
              THEN d2 + Mul(pcfg.dehydration_death_rate, Scale - water_ratio)
              ELSE d2
        death_rate == IF health < 300 THEN d3 + Mul(20, Scale - health) ELSE d3
        deaths == (p.count * death_rate) \div Scale
        eb1 == Mul(Mul(pcfg.base_birth_rate, health), Min(food_ratio, water_ratio))
        density_penalty == Scale - Mul(density(p), density(p))
        effective_birth == Mul(eb1, Max(0, density_penalty))
        births == (p.count * effective_birth) \div Scale
    IN  <<[p EXCEPT !.health = health, !.deaths = deaths, !.births = births,
                    !.count = Max(0, p.count + births - deaths)],
          food_consumed, water_consumed>>

\* Population.tick: returns <<population after, food_consumed, water_consumed>>.
\* food_available, water_available, food_needed, water_needed are fixed-point.
tick(p, food_available, water_available, food_needed, water_needed, pcfg) ==
    IF p.count <= 0
    THEN <<[p EXCEPT !.health = 0, !.births = 0, !.deaths = 0], 0, 0>>
    ELSE
    LET food_ratio  == Min(Scale, (food_available * Scale) \div Max(Scale, food_needed))
        water_ratio == Min(Scale, (water_available * Scale) \div Max(Scale, water_needed))
        food_consumed  == Min(food_available, food_needed)
        water_consumed == Min(water_available, water_needed)
        h1 == IF food_ratio < 500
              THEN p.health - Mul(pcfg.health_decay_no_food, Scale - food_ratio)
              ELSE p.health
        h2 == IF water_ratio < 500
              THEN h1 - Mul(pcfg.health_decay_no_water, Scale - water_ratio)
              ELSE h1
        h3 == IF food_ratio > 700 /\ water_ratio > 700
              THEN h2 + pcfg.health_regen_rate
              ELSE h2
        health == clamp_health(h3)
        d1 == pcfg.base_death_rate
        d2 == IF food_ratio < 300
              THEN d1 + Mul(pcfg.starvation_death_rate, Scale - food_ratio)
              ELSE d1
        d3 == IF water_ratio < 300
              THEN d2 + Mul(pcfg.dehydration_death_rate, Scale - water_ratio)
              ELSE d2
        death_rate == IF health < 300 THEN d3 + Mul(20, Scale - health) ELSE d3
        deaths == (p.count * death_rate) \div Scale
        eb1 == Mul(Mul(pcfg.base_birth_rate, health), Min(food_ratio, water_ratio))
        density_penalty == Scale - Mul(density(p), density(p))
        effective_birth == Mul(eb1, Max(0, density_penalty))
        births == (p.count * effective_birth) \div Scale
    IN  <<[p EXCEPT !.health = health, !.deaths = deaths, !.births = births,
                    !.count = Max(0, p.count + births - deaths)],
          food_consumed, water_consumed>>

\* an emigrate that lets the last resident leave (the mutation of emigrate)
emigrate_to_empty(p, count) ==
    LET actual == Min(count, Max(0, p.count))
    IN  <<[p EXCEPT !.count = p.count - actual, !.migrants_out = actual], actual>>

\* Population.emigrate: returns <<population after, actual>>
emigrate(p, count) ==
    LET actual == Min(count, Max(0, p.count - 1))
    IN  <<[p EXCEPT !.count = p.count - actual, !.migrants_out = actual], actual>>

\* an immigrate that takes every migrant, whatever room is left (the mutation
\* of immigrate)
immigrate_beyond_capacity(p, count) ==
    [p EXCEPT !.count = p.count + count, !.migrants_in = count]

\* Population.immigrate
immigrate(p, count) ==
    LET space  == Max(0, p.max_capacity - p.count)
        actual == Min(count, space)
    IN  [p EXCEPT !.count = p.count + actual, !.migrants_in = actual]

----------------------------------------------------------------------------
\* ClimateEvent / ClimateSystem (climate.py), CLIMATE_EVENT_EFFECTS (config.py)

CLIMATE_EVENT_EFFECTS ==
    [drought  |-> [food |-> -400, water |-> -800],
     flood    |-> [food |-> -300, water |->  500],
     heatwave |-> [food |-> -500, water |-> -600],
     frost    |-> [food |-> -700, water |-> -200],
     storm    |-> [food |-> -200, water |->  200]]

NewClimateEvent(name, severity, duration) ==
    [name |-> name, severity |-> severity, duration |-> duration,
     initial_duration |-> duration]

\* an intensity taken from the duration left after the tick (the mutation of
\* intensity)
intensity_after_tick(e) ==
    IF e.initial_duration <= 0 THEN 0
    ELSE (e.severity * (e.duration - 1)) \div e.initial_duration

\* ClimateEvent.intensity
intensity(e) ==
    IF e.initial_duration <= 0 THEN 0
    ELSE (e.severity * e.duration) \div e.initial_duration

\* an is_active that still holds at duration 0 (the mutation of is_active)
is_active_at_zero(e) == e.duration >= 0

\* ClimateEvent.is_active
is_active(e) == e.duration > 0

\* ClimateEvent.tick: returns <<event after, has effects, food effect, water effect>>
event_tick(e) ==
    IF ~is_active(e) THEN <<e, FALSE, 0, 0>>
    ELSE <<[e EXCEPT !.duration = e.duration - 1], TRUE,
           Mul(CLIMATE_EVENT_EFFECTS[e.name].food, intensity(e)),
           Mul(CLIMATE_EVENT_EFFECTS[e.name].water, intensity(e))>>

RECURSIVE tick_region_overwriting(_, _, _)
\* a tick_region loop in which the effect of an event replaces the sum so far
\* (the mutation of tick_region_rec);
\* acc = [still_active, has, food, water]
tick_region_overwriting(evs, i, acc) ==
    IF i > Len(evs) THEN acc
    ELSE LET t == event_tick(evs[i])
         IN  tick_region_overwriting(evs, i + 1,
               [still_active |-> IF is_active(t[1])
                                 THEN Append(acc.still_active, t[1])
                                 ELSE acc.still_active,
                has   |-> acc.has \/ t[2],
                food  |-> IF t[2] THEN t[3] ELSE acc.food,
                water |-> IF t[2] THEN t[4] ELSE acc.water])

RECURSIVE tick_region_rec(_, _, _)
\* the loop of ClimateSystem.tick_region over the events evs, from index i;
\* acc = [still_active, has, food, water]
tick_region_rec(evs, i, acc) ==
    IF i > Len(evs) THEN acc
    ELSE LET t == event_tick(evs[i])
         IN  tick_region_rec(evs, i + 1,
               [still_active |-> IF is_active(t[1])
                                 THEN Append(acc.still_active, t[1])
                                 ELSE acc.still_active,
                has   |-> acc.has \/ t[2],
                food  |-> IF t[2] THEN acc.food + t[3] ELSE acc.food,
                water |-> IF t[2] THEN acc.water + t[4] ELSE acc.water])

\* ClimateSystem.tick_region: [still_active, has, food, water]; has is FALSE
\* when the returned dict has no key
tick_region(evs) ==
    tick_region_rec(evs, 1, [still_active |-> <<>>, has |-> FALSE, food |-> 0, water |-> 0])

----------------------------------------------------------------------------
\* Configuration (config.py)

\* TERRAIN_TYPES: the multipliers of each terrain type
TERRAIN_TYPES ==
    [mountains |-> [food_mult |->  300, water_mult |->  800, capacity_mult |->  300],
     hilly     |-> [food_mult |->  600, water_mult |->  700, capacity_mult |->  500],
     plains    |-> [food_mult |-> 1200, water_mult |->  800, capacity_mult |-> 1200],
     desert    |-> [food_mult |->  200, water_mult |->  100, capacity_mult |->  200],
     swamp     |-> [food_mult |->  500, water_mult |-> 1500, capacity_mult |->  400],
     river     |-> [food_mult |->  900, water_mult |-> 2000, capacity_mult |->  800],
     lake      |-> [food_mult |->  700, water_mult |-> 2500, capacity_mult |->  600]]

\* terrain.get_terrain_modifiers
get_terrain_modifiers(terrain_type) ==
    IF terrain_type \in DOMAIN TERRAIN_TYPES
    THEN TERRAIN_TYPES[terrain_type] ELSE TERRAIN_TYPES["plains"]

\* The bounds of the instances explored
MaxTick   == 3
MaxEvents == 1

\* A SimConfig of a small, scarce world: one row of three cells, pools of a few
\* units, a handful of residents per region, one climate zone, one governor,
\* and decay, starvation and dehydration rates under which a region without
\* food or water loses its health and all its residents within a tick.
\* collapse_threshold is the default 0.8.
ScarceConfig ==
    [grid       |-> [width |-> 3, height |-> 1],
     resources  |-> [food_max |-> 5 * Scale, food_regen |-> Scale,
                     water_max |-> 5 * Scale, water_regen |-> Scale],
     population |-> [initial_per_region |-> 4, max_per_region |-> 5,
                     base_birth_rate |-> 300, base_death_rate |-> 10,
                     starvation_death_rate |-> 1300, dehydration_death_rate |-> 1300,
                     health_decay_no_food |-> 1200, health_decay_no_water |-> 1500,
                     health_regen_rate |-> 10, migration_threshold |-> 300,
                     migration_rate |-> 500],
     rl         |-> [actions |-> <<"trade", "migrate_out">>],
     climate    |-> [min_severity |-> 500, max_severity |-> 500,
                     min_duration |-> 2, max_duration |-> 2,
                     climate_zones |-> <<"arid">>],
     num_agents |-> 1,
     collapse_threshold |-> 800]

\* the same world with a collapse threshold that two dead regions of three reach
EarlyEndConfig == [ScarceConfig EXCEPT !.collapse_threshold = 600]

\* The configurations a WorldModel is constructed with
SimConfigs == {ScarceConfig, EarlyEndConfig}

----------------------------------------------------------------------------
\* WorldModel (world.py): construction

\* the keys of self.regions in insertion order (y outer, x inner)
RegionKeys(c) ==
    [i \in 1..(c.grid.width * c.grid.height) |->
        <<(i - 1) % c.grid.width, (i - 1) \div c.grid.width>>]

KeySet(c) == {RegionKeys(c)[i] : i \in DOMAIN RegionKeys(c)}

\* terrain.generate_climate_zones: the zone indices row y can get.  The index is
\* round(clip(lat_frac * (n - 1) + (noise - 0.5) * 1.5, 0, n - 1)), noise in [0, 1]
ZoneIndices(y, height, n) ==
    LET base == ((y * Scale) \div Max(1, height - 1)) * (n - 1)
        clip(v) == Max(0, Min((n - 1) * Scale, v))
        lo == clip(base - 750)
        hi == clip(base + 750)
    IN  {i \in 0..(n - 1) : i * Scale + 500 >= lo /\ i * Scale - 500 <= hi}

\* The terrain types explored for a cell (generate_terrain gives every type a
\* weight of at least 0.01)
TerrainsExplored == {"plains"}

\* terrain.generate_terrain: the (terrain_grid, climate_grid) pairs it can return
TerrainGrids(c) ==
    [terrain : [KeySet(c) -> TerrainsExplored],
     climate : {g \in [KeySet(c) -> {c.climate.climate_zones[j] :
                                      j \in DOMAIN c.climate.climate_zones}] :
                  \A k \in KeySet(c) :
                     \E i \in ZoneIndices(k[2], c.grid.height,
                                          Len(c.climate.climate_zones)) :
                        g[k] = c.climate.climate_zones[i + 1]}]

\* RegionResources(food_max, food_regen, water_max, water_regen, food_mult,
\* water_mult): the two pools of a region, each full at construction, with the
\* terrain multiplier applied to its maximum and its base regeneration, and a
\* regeneration multiplier of 1.0
RegionResources(rc, mods) ==
    [food  |-> NewResource(Mul(rc.food_max, mods.food_mult),
                           Mul(rc.food_max, mods.food_mult),
                           Mul(rc.food_regen, mods.food_mult)),
     water |-> NewResource(Mul(rc.water_max, mods.water_mult),
                           Mul(rc.water_max, mods.water_mult),
                           Mul(rc.water_regen, mods.water_mult)),
     food_regen_multiplier  |-> Scale,
     water_regen_multiplier |-> Scale]

\* one Region of _build_world; governor = 0 is None
NewRegion(c, k, terrain_type, climate_zone, ep) ==
    LET mods == get_terrain_modifiers(terrain_type)
        pop_capacity == (c.population.max_per_region * mods.capacity_mult) \div Scale
        initial_pop  == Min(c.population.initial_per_region, pop_capacity)
    IN  [x |-> k[1], y |-> k[2], terrain |-> terrain_type,
         climate_zone |-> climate_zone,
         resources |-> RegionResources(c.resources, mods),
         population |-> NewPopulation(initial_pop, Scale, pop_capacity),
         governor |-> 0,
         oid |-> <<ep, "region", k>>]

\* GovernorAgent(agent_id, region_key, cfg)
NewGovernor(i, rk, ep) ==
    [agent_id |-> i, region_key |-> rk, last_action |-> "none",
     oid |-> <<ep, "agent", i>>]

\* random.sample(region_keys, num_agents): the sequences of distinct keys
Samples(c) ==
    LET n == Min(c.num_agents, c.grid.width * c.grid.height)
    IN  {ch \in [1..n -> KeySet(c)] : \A i, j \in 1..n : i # j => ch[i] # ch[j]}

\* WorldModel._build_world: the worlds [regions, agents] it can build, appended
\* to the agents list it finds
WorldsBuilt(c, ep, old_agents) ==
    {[regions |-> [k \in KeySet(c) |->
                     [NewRegion(c, k, g.terrain[k], g.climate[k], ep)
                        EXCEPT !.governor =
                          IF \E i \in DOMAIN ch : ch[i] = k
                          THEN Len(old_agents) + (CHOOSE i \in DOMAIN ch : ch[i] = k)
                          ELSE 0]],
      agents  |-> old_agents \o [i \in DOMAIN ch |-> NewGovernor(i - 1, ch[i], ep)]] :
        g \in TerrainGrids(c), ch \in Samples(c)}

----------------------------------------------------------------------------
\* GovernorAgent.step(resources, population, tick): the effect of the action
\* chosen on the governor's own region.  focus_food / focus_water /
\* balance_resources set the regeneration multipliers, trade moves up to one
\* unit from the fuller pool to the other, migrate_out only flags the intent
\* for the migration pass, stockpile changes nothing.
GovernorEffect(rs, action) ==
    CASE action = "focus_food" ->
           [rs EXCEPT !.food_regen_multiplier = 1500, !.water_regen_multiplier = 500]
      [] action = "focus_water" ->
           [rs EXCEPT !.food_regen_multiplier = 500, !.water_regen_multiplier = 1500]
      [] action = "balance_resources" ->
           [rs EXCEPT !.food_regen_multiplier = Scale, !.water_regen_multiplier = Scale]
      [] action = "trade" ->
           IF rs.food.current_value >= rs.water.current_value
           THEN LET c == consume(rs.food, Scale)
                IN  [rs EXCEPT !.food = c[1], !.water = apply_event(rs.water, c[2])]
           ELSE LET c == consume(rs.water, Scale)
                IN  [rs EXCEPT !.water = c[1], !.food = apply_event(rs.food, c[2])]
      [] OTHER -> rs

----------------------------------------------------------------------------
\* WorldModel.step, phase by phase.  regs: key -> Region, ags: the agents list,
\* evs: key -> list of ClimateEvent

\* 1. Agent decisions: acts[i] is the action agent i chooses
RECURSIVE AgentLoop(_, _, _, _)
AgentLoop(regs, ags, acts, i) ==
    IF i > Len(ags) THEN [regions |-> regs, agents |-> ags]
    ELSE LET rk == ags[i].region_key
         IN  IF rk \in DOMAIN regs /\ is_alive(regs[rk].population)
             THEN AgentLoop([regs EXCEPT ![rk].resources = GovernorEffect(@, acts[i])],
                            [ags EXCEPT ![i].last_action = acts[i]], acts, i + 1)
             ELSE AgentLoop(regs, ags, acts, i + 1)

AgentPhase(regs, ags, acts) == AgentLoop(regs, ags, acts, 1)

\* 2. Population tick for every living region, then the deduction of what it consumed
PopulationPhase(regs, pcfg) ==
    [k \in DOMAIN regs |->
       IF ~is_alive(regs[k].population) THEN regs[k]
       ELSE LET pop == regs[k].population.count
                t == tick(regs[k].population,
                          regs[k].resources.food.current_value,
                          regs[k].resources.water.current_value,
                          pop * Scale, pop * Scale, pcfg)
            IN  [regs[k] EXCEPT
                   !.population = t[1],
                   !.resources.food  = consume(@, t[2])[1],
                   !.resources.water = consume(@, t[3])[1]]]

\* no event drawn by maybe_spawn_event (random.random() > event_probability)
NoSpawn == [name |-> "none", severity |-> 0, duration |-> 0, initial_duration |-> 0]

\* The event kinds explored (_pick_event_for_zone gives every kind a positive
\* weight in every zone)
SpawnKinds == {"drought", "flood"}

\* the draws of maybe_spawn_event: none, or a kind, a severity (the two ends of
\* [min_severity, max_severity]) and a duration in min_duration..max_duration
SpawnDraws(c) ==
    {NoSpawn} \cup
    {NewClimateEvent(n, sv, d) : n \in SpawnKinds,
                                 sv \in {c.climate.min_severity, c.climate.max_severity},
                                 d \in c.climate.min_duration..c.climate.max_duration}

\* ClimateSystem.maybe_spawn_event: the region's list after the draw sp
maybe_spawn_event(evlist, sp) ==
    IF sp = NoSpawn THEN evlist ELSE Append(evlist, sp)

\* the update of one pool by the cumulative effect of the region's events
climate_delta(r, effect) == apply_event(r, Mul(Mul(effect, r.max_value), 100))

\* 3. Climate events: spawns[k] is the draw of maybe_spawn_event for region k
ClimatePhase(regs, evs, spawns) ==
    LET ticked == [k \in DOMAIN regs |-> tick_region(maybe_spawn_event(evs[k], spawns[k]))]
    IN  [regions |->
           [k \in DOMAIN regs |->
              IF ticked[k].has
              THEN [regs[k] EXCEPT
                      !.resources.food  = climate_delta(@, ticked[k].food),
                      !.resources.water = climate_delta(@, ticked[k].water)]
              ELSE regs[k]],
         events |-> [k \in DOMAIN regs |-> ticked[k].still_active]]

\* RegionResources.regenerate_all: each pool regenerates by its base rate times
\* its regeneration multiplier
regenerate_all(rs) ==
    [rs EXCEPT
       !.food  = [regenerate([@ EXCEPT !.regeneration_rate =
                                Mul(@, rs.food_regen_multiplier)])
                    EXCEPT !.regeneration_rate = rs.food.regeneration_rate],
       !.water = [regenerate([@ EXCEPT !.regeneration_rate =
                                Mul(@, rs.water_regen_multiplier)])
                    EXCEPT !.regeneration_rate = rs.water.regeneration_rate]]

\* 4. Resource regeneration
RegenPhase(regs) ==
    [k \in DOMAIN regs |-> [regs[k] EXCEPT !.resources = regenerate_all(@)]]

\* WorldModel._get_neighbors: the adjacent keys in the order (-1,0),(1,0),(0,-1),(0,1)
_get_neighbors(regs, x, y) ==
    LET cand == << <<x - 1, y>>, <<x + 1, y>>, <<x, y - 1>>, <<x, y + 1>> >>
        InGrid(k) == k \in DOMAIN regs
    IN  SelectSeq(cand, InGrid)

\* the key of max(neighbors, key=...): total_value / max(1, count) when the
\* neighbour is below capacity, else 0; as the pair <<numerator, denominator>>
MigrationScore(n) ==
    IF n.population.count < n.population.max_capacity
    THEN <<n.resources.food.current_value + n.resources.water.current_value,
           Max(1, n.population.count)>>
    ELSE <<0, 1>>

ScoreLess(a, b) == a[1] * b[2] < b[1] * a[2]

\* max(neighbors, key=...): the first neighbour no other neighbour beats
BestNeighbor(regs, nbrs) ==
    LET idx == CHOOSE i \in DOMAIN nbrs :
                  /\ \A j \in DOMAIN nbrs :
                        ~ScoreLess(MigrationScore(regs[nbrs[i]]), MigrationScore(regs[nbrs[j]]))
                  /\ \A j \in 1..(i - 1) :
                        ScoreLess(MigrationScore(regs[nbrs[j]]), MigrationScore(regs[nbrs[i]]))
    IN  nbrs[idx]

\* the body of the loop of _process_migration for the region at key k
MigrateOne(regs, ags, k, pcfg) ==
    LET region == regs[k]
        nbrs == _get_neighbors(regs, region.x, region.y)
        should_migrate ==
            \/ (region.governor # 0 /\ ags[region.governor].last_action = "migrate_out")
            \/ region.population.health < pcfg.migration_threshold
    IN  IF ~is_alive(region.population) THEN regs
        ELSE IF ~should_migrate
        THEN [regs EXCEPT ![k].population.migrants_out = 0]
        ELSE IF Len(nbrs) = 0 THEN regs
        ELSE LET best == BestNeighbor(regs, nbrs)
             IN  IF regs[best].population.count >= regs[best].population.max_capacity
                 THEN regs
                 ELSE LET e == emigrate(region.population,
                                        (region.population.count * pcfg.migration_rate)
                                           \div Scale)
                      IN  [regs EXCEPT ![k].population = e[1],
                                       ![best].population = immigrate(@, e[2])]

RECURSIVE MigrationLoop(_, _, _, _, _)
MigrationLoop(regs, ags, keys, i, pcfg) ==
    IF i > Len(keys) THEN regs
    ELSE MigrationLoop(MigrateOne(regs, ags, keys[i], pcfg), ags, keys, i + 1, pcfg)

\* 5. WorldModel._process_migration
_process_migration(regs, ags, c) ==
    MigrationLoop(regs, ags, RegionKeys(c), 1, c.population)

\* an end condition that ignores the threshold: any dead region ends the run
\* (the mutation of EndReached)
EndReachedAtFirstDeath(regs, c) ==
    LET dead_regions == Cardinality({k \in DOMAIN regs : ~is_alive(regs[k].population)})
        total == Cardinality(DOMAIN regs)
    IN  total > 0 /\ dead_regions > 0

\* 6. End condition: dead_regions / total >= collapse_threshold
EndReached(regs, c) ==
    LET dead_regions == Cardinality({k \in DOMAIN regs : ~is_alive(regs[k].population)})
        total == Cardinality(DOMAIN regs)
    IN  total > 0 /\ dead_regions * Scale >= c.collapse_threshold * total

----------------------------------------------------------------------------
\* WorldModel (world.py): the operations

\* the number of events stored in the climate system
RECURSIVE SumLen(_, _)
SumLen(evs, ks) ==
    IF ks = {} THEN 0
    ELSE LET k == CHOOSE k \in ks : TRUE IN Len(evs[k]) + SumLen(evs, ks \ {k})

EventCount(evs) == SumLen(evs, DOMAIN evs)

NoEvents(c) == [k \in KeySet(c) |-> <<>>]

\* the guard of step() without its test of ended (the mutation of step_returns)
step_returns_ignoring_ended(r, e) == ~r

\* WorldModel.step, lines 130-131: if not self.running or self.ended: return
step_returns(r, e) == ~r \/ e

\* a step() that tests the end condition before the migration pass (the
\* mutation of Step)
StepCheckingEndBeforeMigration ==
    \/ /\ step_returns(running, ended)
       /\ lastOp' = "step_skipped"
       /\ UNCHANGED <<res, cfg, current_tick, running, ended, regions, agents,
                      active_events, epoch>>
       /\ UNCHANGED othersW
    \/ /\ ~step_returns(running, ended)
       /\ current_tick < MaxTick
       /\ \E acts \in [DOMAIN agents -> {cfg.rl.actions[j] : j \in DOMAIN cfg.rl.actions}],
             spawns \in [KeySet(cfg) -> SpawnDraws(cfg)] :
            /\ EventCount(active_events)
                 + Cardinality({k \in KeySet(cfg) : spawns[k] # NoSpawn}) <= MaxEvents
            /\ LET p1 == AgentPhase(regions, agents, acts)
                   p2 == PopulationPhase(p1.regions, cfg.population)
                   p3 == ClimatePhase(p2, active_events, spawns)
                   p4 == RegenPhase(p3.regions)
                   p5 == _process_migration(p4, p1.agents, cfg)
                   over == EndReached(p4, cfg)
               IN  /\ current_tick' = current_tick + 1
                   /\ agents' = p1.agents
                   /\ active_events' = p3.events
                   /\ regions' = p5
                   /\ ended' = (ended \/ over)
                   /\ running' = (running /\ ~over)
       /\ lastOp' = "step"
       /\ UNCHANGED <<res, cfg, epoch>>
       /\ UNCHANGED othersW

\* WorldModel.step
Step ==
    \/ /\ step_returns(running, ended)
       /\ lastOp' = "step_skipped"
       /\ UNCHANGED <<res, cfg, current_tick, running, ended, regions, agents,
                      active_events, epoch>>
       /\ UNCHANGED othersW
    \/ /\ ~step_returns(running, ended)
       /\ current_tick < MaxTick
       /\ \E acts \in [DOMAIN agents -> {cfg.rl.actions[j] : j \in DOMAIN cfg.rl.actions}],
             spawns \in [KeySet(cfg) -> SpawnDraws(cfg)] :
            /\ EventCount(active_events)
                 + Cardinality({k \in KeySet(cfg) : spawns[k] # NoSpawn}) <= MaxEvents
            /\ LET p1 == AgentPhase(regions, agents, acts)
                   p2 == PopulationPhase(p1.regions, cfg.population)
                   p3 == ClimatePhase(p2, active_events, spawns)
                   p4 == RegenPhase(p3.regions)
                   p5 == _process_migration(p4, p1.agents, cfg)
                   over == EndReached(p5, cfg)
               IN  /\ current_tick' = current_tick + 1
                   /\ agents' = p1.agents
                   /\ active_events' = p3.events
                   /\ regions' = p5
                   /\ ended' = (ended \/ over)
                   /\ running' = (running /\ ~over)
       /\ lastOp' = "step"
       /\ UNCHANGED <<res, cfg, epoch>>
       /\ UNCHANGED othersW

\* a start() that also clears ended (the mutation of Start)
StartClearingEnded ==
    /\ running' = TRUE
    /\ ended' = FALSE
    /\ lastOp' = "start"
    /\ UNCHANGED <<res, cfg, current_tick, regions, agents, active_events, epoch>>
    /\ UNCHANGED othersW

\* WorldModel.start: self.running = True
Start ==
    /\ running' = TRUE
    /\ lastOp' = "start"
    /\ UNCHANGED <<res, cfg, current_tick, ended, regions, agents, active_events,
                   epoch>>
    /\ UNCHANGED othersW

\* routes.start_simulation: world_model.running = True
RouteStart ==
    /\ running' = TRUE
    /\ lastOp' = "route_start"
    /\ UNCHANGED <<res, cfg, current_tick, ended, regions, agents, active_events,
                   epoch>>
    /\ UNCHANGED othersW

\* websocket.handle_client_message, control / start: world_model.running = True
WsControlStart ==
    /\ running' = TRUE
    /\ lastOp' = "ws_start"
    /\ UNCHANGED <<res, cfg, current_tick, ended, regions, agents, active_events,
                   epoch>>
    /\ UNCHANGED othersW

\* WorldModel.pause (routes.pause_simulation and the websocket's control /
\* pause assign the same value)
Pause ==
    /\ running' = FALSE
    /\ lastOp' = "pause"
    /\ UNCHANGED <<res, cfg, current_tick, ended, regions, agents, active_events,
                   epoch>>
    /\ UNCHANGED othersW

\* the agents list _build_world appends to when reset() skips agents.clear()
\* (the mutation of agents_after_clear)
agents_not_cleared(ags) == ags

\* WorldModel.reset, line 260: self.agents.clear()
agents_after_clear(ags) == <<>>

\* WorldModel.reset
Reset ==
    /\ \E w \in WorldsBuilt(cfg, 1 - epoch, agents_after_clear(agents)) :
          /\ regions' = w.regions
          /\ agents' = w.agents
    /\ current_tick' = 0
    /\ running' = FALSE
    /\ ended' = FALSE
    /\ active_events' = NoEvents(cfg)
    /\ epoch' = 1 - epoch
    /\ lastOp' = "reset"
    /\ UNCHANGED <<res, cfg>>
    /\ UNCHANGED othersW

\* sum(r.population.count for r in self.regions.values())
RECURSIVE SumCounts(_, _)
SumCounts(regs, keys) ==
    IF keys = {} THEN 0
    ELSE LET k == CHOOSE x \in keys : TRUE
         IN  regs[k].population.count + SumCounts(regs, keys \ {k})

\* ClimateEvent.to_dict of every event stored for region k
get_region_events(evs, k) ==
    IF k \in DOMAIN evs
    THEN [i \in DOMAIN evs[k] |->
            [name |-> evs[k][i].name, severity |-> evs[k][i].severity,
             duration |-> evs[k][i].duration,
             initial_duration |-> evs[k][i].initial_duration,
             intensity |-> intensity(evs[k][i])]]
    ELSE <<>>

\* Population.to_dict
population_to_dict(p) ==
    [count |-> p.count, health |-> p.health, max_capacity |-> p.max_capacity,
     density |-> density(p), births |-> p.births, deaths |-> p.deaths,
     migrants_in |-> p.migrants_in, migrants_out |-> p.migrants_out]

\* the dictionary WorldModel.get_state returns
world_get_state ==
    [tick |-> current_tick, running |-> running, ended |-> ended,
     width |-> cfg.grid.width, height |-> cfg.grid.height,
     num_agents |-> Len(agents),
     total_population |-> SumCounts(regions, DOMAIN regions),
     regions |-> [k \in DOMAIN regions |->
                    [x |-> regions[k].x, y |-> regions[k].y,
                     terrain |-> regions[k].terrain,
                     climate_zone |-> regions[k].climate_zone,
                     resources |-> regions[k].resources,
                     population |-> population_to_dict(regions[k].population),
                     governor |-> regions[k].governor]],
     agents |-> agents,
     climate_events |->
        [k \in {r \in DOMAIN regions : get_region_events(active_events, r) # <<>>} |->
            get_region_events(active_events, k)]]

\* the dictionary WorldModel.get_summary returns
world_get_summary ==
    [tick |-> current_tick, running |-> running, ended |-> ended,
     width |-> cfg.grid.width, height |-> cfg.grid.height,
     num_agents |-> Len(agents),
     total_population |-> SumCounts(regions, DOMAIN regions),
     alive_regions |-> Cardinality({k \in DOMAIN regions : is_alive(regions[k].population)}),
     total_regions |-> Cardinality(DOMAIN regions)]

\* a get_state that drops the events it serialised (the mutation of GetState)
GetStateDrainingEvents ==
    /\ lastOp' = "get_state"
    /\ active_events' = [k \in DOMAIN active_events |-> <<>>]
    /\ UNCHANGED <<res, cfg, current_tick, running, ended, regions, agents, epoch>>
    /\ UNCHANGED othersW

\* WorldModel.get_state: builds the snapshot and changes nothing
GetState ==
    /\ lastOp' = "get_state"
    /\ UNCHANGED <<res, cfg, current_tick, running, ended, regions, agents,
                   active_events, epoch>>
    /\ UNCHANGED othersW

\* WorldModel.__init__
InitWorld ==
    /\ cfg \in SimConfigs
    /\ current_tick = 0
    /\ running = FALSE
    /\ ended = FALSE
    /\ epoch = 0
    /\ \E w \in WorldsBuilt(cfg, 0, <<>>) :
          /\ regions = w.regions
          /\ agents = w.agents
    /\ active_events = NoEvents(cfg)

\* one Resource on its own, and the bounds of its values and of the amounts
\* it is called with
MaxValue  == 5
MaxAmount == 3

\* the floats a Resource is built from: the small integers, which are exact,
\* and one float above FloatExact, where neighbouring floats lie two apart
ResourceValues == (0..MaxValue) \cup {FloatExact + 2 * MaxAmount}

\* Resource(name, initial_value, max_value, regeneration_rate)
InitResource ==
    \E maxv \in ResourceValues, initial \in ResourceValues, regen \in ResourceValues :
        /\ initial <= maxv
        /\ res = NewResource(initial, maxv, regen)

ResConsume ==
    /\ \E a \in 0..MaxAmount : res' = consume(res, a)[1]
    /\ lastOp' = "consume"
    /\ UNCHANGED othersR

ResRegenerate ==
    /\ res' = regenerate(res)
    /\ lastOp' = "regenerate"
    /\ UNCHANGED othersR

ResApplyEvent ==
    /\ \E d \in (-MaxAmount)..MaxAmount : res' = apply_event(res, d)
    /\ lastOp' = "apply_event"
    /\ UNCHANGED othersR


----------------------------------------------------------------------------
\* The asyncio runner (worldsim-backend/app/main.py).  The event loop runs one
\* task at a time, so the code between two awaits is one step.

\* SimState.__init__: asyncio.Queue(maxsize=8)
QueueMaxsize == 8

\* The bounds of the instances explored
MaxProduced    == 10
MaxModels      == 2
MaxTasks       == 2
MaxConnections == 1

NoSnapshot == [seq |-> 0, gen |-> 0, step |-> 0]

\* WorldSimModel.get_world_state: the snapshot of the model, numbered seq
get_world_state(m, seq) == [seq |-> seq, gen |-> m.gen, step |-> m.step_count]

\* a put that keeps the buffered snapshots and drops the new one when the queue
\* is full (the mutation of put_drop_oldest)
put_drop_newest(q, snapshot) ==
    IF Len(q) >= QueueMaxsize THEN q ELSE Append(q, snapshot)

\* _simulation_loop, lines 87-92: if the queue is full, get_nowait(); put_nowait
put_drop_oldest(q, snapshot) ==
    IF Len(q) >= QueueMaxsize
    THEN Append(Tail(q), snapshot)
    ELSE Append(q, snapshot)

\* _simulation_loop: one resumption of task t, from the while test to the sleep.
\* A cancelled task is resumed by CancelledError and ends.
ASimLoop(t) ==
    /\ t \in DOMAIN a_tasks
    /\ a_tasks[t] = "alive"
    /\ \/ /\ ~a_running
          /\ a_tasks' = [a_tasks EXCEPT ![t] = "stopped"]
          /\ lastOp' = "sim_loop_exit"
          /\ UNCHANGED <<a_model, a_queue, a_produced, a_since_drain>>
       \/ /\ a_running
          /\ a_produced < MaxProduced
          /\ LET m == [a_model EXCEPT !.step_count = @ + 1]
             IN  /\ a_model' = m
                 /\ a_queue' = put_drop_oldest(a_queue, get_world_state(m, a_produced + 1))
          /\ a_produced' = a_produced + 1
          /\ a_since_drain' = a_since_drain + 1
          /\ lastOp' = "sim_tick"
          /\ UNCHANGED a_tasks
    /\ UNCHANGED <<a_running, a_sim_task, a_connections, a_sent>>
    /\ UNCHANGED othersA

\* ConnectionManager.broadcast: the connections left when the sends to `failing` raise
broadcast(conns, failing) == conns \ failing

\* _broadcast_loop: one iteration after its sleep
ABroadcastLoop ==
    /\ \/ /\ ~a_running
          /\ lastOp' = "broadcast_idle"
          /\ UNCHANGED <<a_queue, a_connections, a_since_drain, a_sent>>
       \/ /\ a_running
          /\ a_queue = <<>>
          /\ lastOp' = "broadcast_empty"
          /\ UNCHANGED <<a_queue, a_connections, a_since_drain, a_sent>>
       \/ /\ a_running
          /\ a_queue # <<>>
          /\ a_sent' = Head(a_queue)
          /\ a_queue' = Tail(a_queue)
          /\ a_since_drain' = 0
          /\ \E failing \in SUBSET a_connections :
                a_connections' = broadcast(a_connections, failing)
          /\ lastOp' = "broadcast"
    /\ UNCHANGED <<a_model, a_running, a_sim_task, a_tasks, a_produced>>
    /\ UNCHANGED othersA

\* _start
AStart ==
    /\ \/ /\ ~a_running
          /\ Len(a_tasks) < MaxTasks
          /\ a_running' = TRUE
          /\ a_tasks' = Append(a_tasks, "alive")
          /\ a_sim_task' = Len(a_tasks) + 1
          /\ lastOp' = "a_start"
       \/ /\ a_running
          /\ lastOp' = "a_already_running"
          /\ UNCHANGED <<a_running, a_tasks, a_sim_task>>
    /\ UNCHANGED <<a_model, a_queue, a_connections, a_produced, a_since_drain, a_sent>>
    /\ UNCHANGED othersA

\* a _stop that leaves the task to see sim.running by itself (the mutation of
\* tasks_after_stop)
tasks_not_cancelled(tasks, task) == tasks

\* the tasks after _stop: sim.sim_task.cancel() when there is a task
tasks_after_stop(tasks, task) ==
    IF task # 0 /\ tasks[task] = "alive"
    THEN [tasks EXCEPT ![task] = "cancelled"]
    ELSE tasks

\* _stop
AStop ==
    /\ a_running' = FALSE
    /\ a_tasks' = tasks_after_stop(a_tasks, a_sim_task)
    /\ a_sim_task' = 0
    /\ lastOp' = "a_stop"
    /\ UNCHANGED <<a_model, a_queue, a_connections, a_produced, a_since_drain, a_sent>>
    /\ UNCHANGED othersA

\* _reset: _stop, a new WorldSimModel, and the broadcast of simulation_reset
AReset ==
    /\ a_model.gen < MaxModels
    /\ a_running' = FALSE
    /\ a_tasks' = tasks_after_stop(a_tasks, a_sim_task)
    /\ a_sim_task' = 0
    /\ a_model' = [gen |-> a_model.gen + 1, step_count |-> 0]
    /\ \E failing \in SUBSET a_connections :
          a_connections' = broadcast(a_connections, failing)
    /\ lastOp' = "a_reset"
    /\ UNCHANGED <<a_queue, a_produced, a_since_drain, a_sent>>
    /\ UNCHANGED othersA

\* websocket_endpoint: manager.connect
AConnect ==
    /\ \E ws \in (1..MaxConnections) \ a_connections :
          a_connections' = a_connections \cup {ws}
    /\ lastOp' = "a_connect"
    /\ UNCHANGED <<a_model, a_running, a_sim_task, a_tasks, a_queue, a_produced,
                   a_since_drain, a_sent>>
    /\ UNCHANGED othersA

\* websocket_endpoint: manager.disconnect on WebSocketDisconnect
ADisconnect ==
    /\ \E ws \in a_connections : a_connections' = a_connections \ {ws}
    /\ lastOp' = "a_disconnect"
    /\ UNCHANGED <<a_model, a_running, a_sim_task, a_tasks, a_queue, a_produced,
                   a_since_drain, a_sent>>
    /\ UNCHANGED othersA

\* SimState.__init__ and ConnectionManager.__init__
InitAsync ==
    /\ a_model = [gen |-> 1, step_count |-> 0]
    /\ a_running = FALSE
    /\ a_sim_task = 0
    /\ a_tasks = <<>>
    /\ a_queue = <<>>
    /\ a_connections = {}
    /\ a_produced = 0
    /\ a_since_drain = 0
    /\ a_sent = NoSnapshot


----------------------------------------------------------------------------
\* The threaded runner (backend/simulation.py and backend/main.py).  The
\* simulation threads run beside the event loop; a thread's step is the code
\* between two reads or writes of what it shares with the loop.

\* _state_queue: asyncio.Queue(maxsize=50)
StateQueueMaxsize == 50

\* The bounds of the instances explored
MaxThreads      == 2
MaxTicksControl == 2
MaxTicksHandoff == 51
MaxClients      == 1

\* WorldModel.get_state of the model of thread th
get_state(th, model_tick) == [thread |-> th, tick |-> model_tick]

\* a wait that returns whatever the event is (the mutation of pause_wait_returns)
pause_wait_ignored(pause_event) == TRUE

\* run_simulation, _pause_event.wait(): returns once the event is set
pause_wait_returns(pause_event) == pause_event

\* run_simulation: the next step of thread th
RunSimulation(th) ==
    /\ th \in DOMAIN t_threads
    /\ LET me == t_threads[th]
       IN  \/ /\ me.pc = "while"
              /\ t_threads' = [t_threads EXCEPT
                     ![th].pc = IF t_stop_event THEN "done" ELSE "wait"]
              /\ lastOp' = "thread_while"
              /\ UNCHANGED <<t_pending, t_resumed>>
           \/ /\ me.pc = "wait"
              /\ pause_wait_returns(t_pause_event)
              /\ t_threads' = [t_threads EXCEPT ![th].pc = "check"]
              /\ lastOp' = "thread_wait"
              /\ UNCHANGED <<t_pending, t_resumed>>
           \/ /\ me.pc = "check"
              /\ t_threads' = [t_threads EXCEPT
                     ![th].pc = IF t_stop_event THEN "done" ELSE "tick"]
              /\ lastOp' = "thread_check"
              /\ UNCHANGED <<t_pending, t_resumed>>
           \/ /\ me.pc = "tick"
              /\ me.tick < t_limit
              /\ t_threads' = [t_threads EXCEPT ![th] =
                                  [pc |-> "while", tick |-> me.tick + 1]]
              /\ t_pending' = Append(t_pending, get_state(th, me.tick + 1))
              /\ t_resumed' = [t_resumed EXCEPT ![th] = FALSE]
              /\ lastOp' = "thread_tick"
    /\ UNCHANGED <<t_stop_event, t_pause_event, t_is_running, t_queue, t_clients,
                   t_broadcaster, t_limit, t_tick_at_pause>>
    /\ UNCHANGED othersT

\* the coroutine queue.put(state) on the event loop: it waits while the queue is
\* full, then appends
QueuePut ==
    /\ t_pending # <<>>
    /\ Len(t_queue) < StateQueueMaxsize
    /\ t_queue' = Append(t_queue, Head(t_pending))
    /\ t_pending' = Tail(t_pending)
    /\ lastOp' = "queue_put"
    /\ UNCHANGED <<t_stop_event, t_pause_event, t_is_running, t_threads, t_clients,
                   t_broadcaster, t_limit, t_tick_at_pause, t_resumed>>
    /\ UNCHANGED othersT

\* broadcaster: state = await _state_queue.get(), up to the first send
BroadcasterGet ==
    /\ t_broadcaster.pc = "get"
    /\ t_queue # <<>>
    /\ t_queue' = Tail(t_queue)
    /\ t_broadcaster' = IF t_clients = {}
                        THEN t_broadcaster
                        ELSE [pc |-> "send", targets |-> t_clients, dead |-> {}]
    /\ lastOp' = "broadcaster_get"
    /\ UNCHANGED <<t_stop_event, t_pause_event, t_is_running, t_threads, t_pending,
                   t_clients, t_limit, t_tick_at_pause, t_resumed>>
    /\ UNCHANGED othersT

\* broadcaster: one await ws.send_text(payload) returns or raises; after the
\* last one, _clients.difference_update(dead)
BroadcasterSend ==
    /\ t_broadcaster.pc = "send"
    /\ \E ws \in t_broadcaster.targets, ok \in BOOLEAN :
          LET targets == t_broadcaster.targets \ {ws}
              dead    == IF ok THEN t_broadcaster.dead ELSE t_broadcaster.dead \cup {ws}
          IN  IF targets = {}
              THEN /\ t_clients' = t_clients \ dead
                   /\ t_broadcaster' = [pc |-> "get", targets |-> {}, dead |-> {}]
              ELSE /\ t_clients' = t_clients
                   /\ t_broadcaster' = [pc |-> "send", targets |-> targets, dead |-> dead]
    /\ lastOp' = "broadcaster_send"
    /\ UNCHANGED <<t_stop_event, t_pause_event, t_is_running, t_threads, t_pending,
                   t_queue, t_limit, t_tick_at_pause, t_resumed>>
    /\ UNCHANGED othersT

\* _handle_ws: accept and _clients.add
HandleWsConnect ==
    /\ \E ws \in (1..MaxClients) \ t_clients : t_clients' = t_clients \cup {ws}
    /\ lastOp' = "t_connect"
    /\ UNCHANGED <<t_stop_event, t_pause_event, t_is_running, t_threads, t_pending,
                   t_queue, t_broadcaster, t_limit, t_tick_at_pause, t_resumed>>
    /\ UNCHANGED othersT

\* _handle_ws: the finally block, _clients.discard
HandleWsDisconnect ==
    /\ \E ws \in t_clients : t_clients' = t_clients \ {ws}
    /\ lastOp' = "t_disconnect"
    /\ UNCHANGED <<t_stop_event, t_pause_event, t_is_running, t_threads, t_pending,
                   t_queue, t_broadcaster, t_limit, t_tick_at_pause, t_resumed>>
    /\ UNCHANGED othersT

\* start_simulation: _stop_event.clear() and a new thread with a new WorldModel
StartSimulation ==
    /\ Len(t_threads) < MaxThreads
    /\ t_stop_event' = FALSE
    /\ t_threads' = Append(t_threads, [pc |-> "while", tick |-> 0])
    /\ t_tick_at_pause' = Append(t_tick_at_pause, 0)
    /\ t_resumed' = Append(t_resumed, FALSE)
    /\ lastOp' = "start_simulation"
    /\ UNCHANGED <<t_pause_event, t_is_running, t_pending, t_queue, t_clients,
                   t_broadcaster, t_limit>>
    /\ UNCHANGED othersT

\* start_simulation called the first time or after a stop_simulation(): the
\* callers that restart the runner, never starting it twice in a row
StartAfterStop ==
    /\ t_threads = <<>> \/ t_stop_event
    /\ StartSimulation

\* stop_simulation: _stop_event.set()
StopSimulation ==
    /\ t_stop_event' = TRUE
    /\ lastOp' = "stop_simulation"
    /\ UNCHANGED <<t_pause_event, t_is_running, t_threads, t_pending, t_queue,
                   t_clients, t_broadcaster, t_limit, t_tick_at_pause, t_resumed>>
    /\ UNCHANGED othersT

\* control, action "stop", with the flag alone: _is_running = False and no
\* pause_simulation() (the mutation of ControlStop)
ControlStopFlagOnly ==
    /\ t_is_running' = FALSE
    /\ t_tick_at_pause' = [th \in DOMAIN t_threads |-> t_threads[th].tick]
    /\ t_resumed' = [th \in DOMAIN t_threads |-> FALSE]
    /\ lastOp' = "pause_simulation"
    /\ UNCHANGED <<t_pause_event, t_stop_event, t_threads, t_pending, t_queue,
                   t_clients, t_broadcaster, t_limit>>
    /\ UNCHANGED othersT

\* control, action "stop": _is_running = False and pause_simulation(), which is
\* _pause_event.clear()
ControlStop ==
    /\ t_is_running' = FALSE
    /\ t_pause_event' = FALSE
    /\ t_tick_at_pause' = IF t_pause_event
                          THEN [th \in DOMAIN t_threads |-> t_threads[th].tick]
                          ELSE t_tick_at_pause
    /\ t_resumed' = [th \in DOMAIN t_threads |-> FALSE]
    /\ lastOp' = "pause_simulation"
    /\ UNCHANGED <<t_stop_event, t_threads, t_pending, t_queue, t_clients,
                   t_broadcaster, t_limit>>
    /\ UNCHANGED othersT

\* control, action "start": _is_running = True and resume_simulation(), which is
\* _pause_event.set()
ControlStart ==
    /\ t_is_running' = TRUE
    /\ t_pause_event' = TRUE
    /\ t_resumed' = IF t_pause_event
                    THEN t_resumed
                    ELSE [th \in DOMAIN t_threads |-> TRUE]
    /\ lastOp' = "resume_simulation"
    /\ UNCHANGED <<t_stop_event, t_threads, t_pending, t_queue, t_clients,
                   t_broadcaster, t_limit, t_tick_at_pause>>
    /\ UNCHANGED othersT

\* The module state of simulation.py and main.py before lifespan starts a thread
IdleThreaded ==
    /\ t_stop_event = FALSE
    /\ t_pause_event = TRUE
    /\ t_is_running = TRUE
    /\ t_threads = <<>>
    /\ t_pending = <<>>
    /\ t_queue = <<>>
    /\ t_clients = {}
    /\ t_broadcaster = [pc |-> "get", targets |-> {}, dead |-> {}]
    /\ t_tick_at_pause = <<>>
    /\ t_resumed = <<>>

\* lifespan: the state after start_simulation and the creation of broadcaster
AfterLifespan ==
    /\ t_stop_event = FALSE
    /\ t_pause_event = TRUE
    /\ t_is_running = TRUE
    /\ t_threads = <<[pc |-> "while", tick |-> 0]>>
    /\ t_pending = <<>>
    /\ t_queue = <<>>
    /\ t_clients = {}
    /\ t_broadcaster = [pc |-> "get", targets |-> {}, dead |-> {}]
    /\ t_tick_at_pause = <<0>>
    /\ t_resumed = <<FALSE>>


----------------------------------------------------------------------------
\* One fan-out of a message to the subscribers, as broadcast_state
\* (backend/api/websocket.py), broadcaster (backend/main.py) and
\* ConnectionManager.broadcast (worldsim-backend/app/main.py) do it, with no
\* subscriber joining or leaving while it runs.  failing is the set of
\* subscribers whose send raises.

MaxSubscribers == 3

\* a loop without the try / except around the send: the first failure ends it
\* (the mutation of send_all)
RECURSIVE send_all_aborting(_, _, _, _)
send_all_aborting(todo, failing, received, dead) ==
    IF todo = {} THEN [received |-> received, dead |-> dead]
    ELSE LET ws == CHOOSE w \in todo : TRUE
         IN  IF ws \in failing
             THEN [received |-> received, dead |-> dead \cup {ws}]
             ELSE send_all_aborting(todo \ {ws}, failing, received \cup {ws}, dead)

\* for ws in ...: try: await send  except Exception: dead.add(ws)
RECURSIVE send_all(_, _, _, _)
send_all(todo, failing, received, dead) ==
    IF todo = {} THEN [received |-> received, dead |-> dead]
    ELSE LET ws == CHOOSE w \in todo : TRUE
         IN  IF ws \in failing
             THEN send_all(todo \ {ws}, failing, received, dead \cup {ws})
             ELSE send_all(todo \ {ws}, failing, received \cup {ws}, dead)

\* broadcast_state: sends to every subscription, then discards the disconnected
FanBroadcastState ==
    /\ \E failing \in SUBSET f_subscribers :
          LET r == send_all(f_subscribers, failing, {}, {})
          IN  /\ f_received' = r.received
              /\ f_subscribers' = f_subscribers \ r.dead
              /\ f_failing' = failing
    /\ f_before' = f_subscribers
    /\ lastOp' = "broadcast_state"
    /\ UNCHANGED othersF

\* broadcaster, after the get: nothing is sent when there is no client;
\* otherwise sends to list(_clients), then _clients.difference_update(dead)
FanBroadcaster ==
    /\ \E failing \in SUBSET f_subscribers :
          LET r == IF f_subscribers = {}
                   THEN [received |-> {}, dead |-> {}]
                   ELSE send_all(f_subscribers, failing, {}, {})
          IN  /\ f_received' = r.received
              /\ f_subscribers' = f_subscribers \ r.dead
              /\ f_failing' = failing
    /\ f_before' = f_subscribers
    /\ lastOp' = "broadcaster"
    /\ UNCHANGED othersF

\* ConnectionManager.broadcast: sends to list(self.connections), then
\* disconnects every dead one
FanManagerBroadcast ==
    /\ \E failing \in SUBSET f_subscribers :
          LET r == send_all(f_subscribers, failing, {}, {})
          IN  /\ f_received' = r.received
              /\ f_subscribers' = broadcast(f_subscribers, r.dead)
              /\ f_failing' = failing
    /\ f_before' = f_subscribers
    /\ lastOp' = "manager_broadcast"
    /\ UNCHANGED othersF

\* a client subscribes between two fan-outs (accept, then add)
FanSubscribe ==
    /\ \E ws \in (1..MaxSubscribers) \ f_subscribers :
          f_subscribers' = f_subscribers \cup {ws}
    /\ lastOp' = "subscribe"
    /\ UNCHANGED <<f_before, f_failing, f_received>>
    /\ UNCHANGED othersF

\* subscriptions = set(), _clients = set(), ConnectionManager.__init__
IdleFanout ==
    /\ f_subscribers = {}
    /\ f_before = {}
    /\ f_failing = {}
    /\ f_received = {}


----------------------------------------------------------------------------
\* The loop body of WorldModel._process_migration applied to a row of three
\* regions in the states the regeneration phase can leave them in: any count
\* up to the capacity, health below or above the migration threshold, pools
\* at what one regeneration gives or above it, and a governor on the middle
\* region that did or did not ask to migrate.

MaxCount == 3

\* ScarceConfig with base regeneration rates of regen for both pools
MigrationWorld(regen) ==
    [ScarceConfig EXCEPT !.resources.food_regen = regen,
                         !.resources.water_regen = regen]

\* the states one region of the row can be in: a region without residents has
\* health 0, as Population.tick leaves it; a pool holds at least what the
\* regeneration phase has just added
MigrationRegions(k, regen) ==
    LET built == NewRegion(MigrationWorld(regen), k, "plains", "arid", 0)
    IN  {[built EXCEPT
            !.population = NewPopulation(n, IF n = 0 THEN 0 ELSE h, MaxCount),
            !.resources.food.current_value = f,
            !.resources.water.current_value = built.resources.water.regeneration_rate,
            !.governor = IF k = <<1, 0>> THEN 1 ELSE 0] :
          n \in 0..MaxCount, h \in {100, Scale},
          f \in {built.resources.food.regeneration_rate, 2 * Scale}}

\* PopulationConfig: the migration threshold of ScarceConfig and a migration
\* rate of a half or of all residents
MigrationConfigs ==
    {[ScarceConfig.population EXCEPT !.migration_rate = r] : r \in {500, Scale}}

InitMigration ==
    /\ \E regen \in {0, Scale} :
          /\ mg_regions \in [KeySet(ScarceConfig) ->
                               UNION {MigrationRegions(k, regen) : k \in KeySet(ScarceConfig)}]
          /\ \A k \in KeySet(ScarceConfig) : mg_regions[k] \in MigrationRegions(k, regen)
    /\ \E a \in {"migrate_out", "trade"} :
          mg_agents = <<[NewGovernor(0, <<1, 0>>, 0) EXCEPT !.last_action = a]>>
    /\ mg_pcfg \in MigrationConfigs
    /\ mg_prev = mg_regions
    /\ mg_key = <<0, 0>>

\* the loop body of _process_migration for the region at key k
MigrateRegion ==
    /\ \E k \in KeySet(ScarceConfig) :
          /\ mg_regions' = MigrateOne(mg_regions, mg_agents, k, mg_pcfg)
          /\ mg_key' = k
    /\ mg_prev' = mg_regions
    /\ lastOp' = "migrate_one"
    /\ UNCHANGED <<mg_agents, mg_pcfg>>
    /\ UNCHANGED othersM

\* WorldModel._process_migration: the whole pass over the regions
MigrationPass ==
    /\ mg_regions' = MigrationLoop(mg_regions, mg_agents, RegionKeys(ScarceConfig), 1, mg_pcfg)
    /\ mg_prev' = mg_regions
    /\ mg_key' = <<0, 0>>
    /\ lastOp' = "migration_pass"
    /\ UNCHANGED <<mg_agents, mg_pcfg>>
    /\ UNCHANGED othersM

IdleMigration ==
    /\ mg_regions = [k \in {} |-> 0]
    /\ mg_agents = <<>>
    /\ mg_pcfg = ScarceConfig.population
    /\ mg_prev = [k \in {} |-> 0]
    /\ mg_key = <<0, 0>>


----------------------------------------------------------------------------
\* The snapshots of the asyncio runner (worldsim-backend agents.py, models.py).
\* A Python list is an object: the model keeps the trade_partners list of each
\* region in s_lists under the region's id, and a value that holds the list
\* itself, not a copy of it, is a reference to that entry.

MaxRegions == 2
MaxSnapSteps == 3

RegionIds == 1..MaxRegions

\* the list object RegionState.trade_partners of region rid
ListRef(rid) == [list_of |-> rid]

\* the elements of sequence q without the first occurrence of x (list.remove)
RECURSIVE remove(_, _)
remove(q, x) ==
    IF q = <<>> THEN <<>>
    ELSE IF Head(q) = x THEN Tail(q)
    ELSE <<Head(q)>> \o remove(Tail(q), x)

InList(q, x) == \E i \in DOMAIN q : q[i] = x

\* PresidentAgent._execute_trade, lines 282-287, with partner best_rid
_execute_trade(m, rid, best_rid) ==
    LET l1 == IF InList(m.lists[rid], best_rid)
              THEN m.lists
              ELSE [m.lists EXCEPT ![rid] = Append(@, best_rid)]
        l2 == IF InList(l1[best_rid], rid)
              THEN l1
              ELSE [l1 EXCEPT ![best_rid] = Append(@, rid)]
    IN  [lists  |-> l2,
         trades |-> [m.trades EXCEPT ![rid] = @ + 1, ![best_rid] = @ + 1]]

\* PresidentAgent._execute_steal, lines 314-318, with victim weakest
_execute_steal(m, rid, weakest) ==
    LET l1 == IF InList(m.lists[weakest], rid)
              THEN [m.lists EXCEPT ![weakest] = remove(@, rid)]
              ELSE m.lists
        l2 == IF InList(l1[rid], weakest)
              THEN [l1 EXCEPT ![rid] = remove(@, weakest)]
              ELSE l1
    IN  [lists |-> l2, trades |-> m.trades]

\* what one president does in a step: nothing to the lists (hold, expand, a
\* trade without a partner), a trade with a partner, or a steal from a victim
PresidentMoves(rid) ==
    {[kind |-> "none", other |-> rid]}
      \cup {[kind |-> k, other |-> o] :
              k \in {"trade", "steal"}, o \in RegionIds \ {rid}}

\* PresidentAgent._execute_action
_execute_action(m, rid, mv) ==
    IF mv.kind = "trade" THEN _execute_trade(m, rid, mv.other)
    ELSE IF mv.kind = "steal" THEN _execute_steal(m, rid, mv.other)
    ELSE m

\* self.schedule.step(): the presidents act one after the other in the order
\* RandomActivation drew
RECURSIVE schedule_step(_, _, _)
schedule_step(m, order, moves) ==
    IF order = <<>> THEN m
    ELSE schedule_step(_execute_action(m, Head(order), moves[Head(order)]),
                       Tail(order), moves)

ActivationOrders ==
    {o \in [1..MaxRegions -> RegionIds] : \A i, j \in 1..MaxRegions : o[i] = o[j] => i = j}

\* RegionState.to_dict and WorldSimModel.get_world_state: numbers are copied,
\* climate_events[-15:] is a new list, trade_partners is the list itself
world_state(step, trades, events) ==
    [step           |-> step,
     regions        |-> [rid \in RegionIds |->
                           [total_trades   |-> trades[rid],
                            trade_partners |-> ListRef(rid)]],
     climate_events |-> SubSeq(events, Max(1, Len(events) - 14), Len(events)),
     trade_network  |-> [rid \in RegionIds |-> ListRef(rid)]]

\* everything that can be read from a snapshot, the lists it refers to included
Contents(snap, lists) ==
    [step           |-> snap.step,
     regions        |-> [rid \in RegionIds |->
                           [total_trades   |-> snap.regions[rid].total_trades,
                            trade_partners |-> lists[snap.regions[rid].trade_partners.list_of]]],
     climate_events |-> snap.climate_events,
     trade_network  |-> [rid \in RegionIds |-> lists[snap.trade_network[rid].list_of]]]

\* _simulation_loop: sim.model.step(), get_world_state() and the put on the queue
SnapTick ==
    /\ s_step < MaxSnapSteps
    /\ \E order \in ActivationOrders,
          moves \in [RegionIds -> UNION {PresidentMoves(r) : r \in RegionIds}],
          event \in BOOLEAN :
          /\ \A r \in RegionIds : moves[r] \in PresidentMoves(r)
          /\ LET m    == schedule_step([lists |-> s_lists, trades |-> s_trades], order, moves)
                 evs  == IF event THEN Append(s_events, s_step + 1) ELSE s_events
                 snap == world_state(s_step + 1, m.trades, evs)
             IN  /\ s_lists' = m.lists
                 /\ s_trades' = m.trades
                 /\ s_events' = evs
                 /\ s_queue' = put_drop_oldest(s_queue, snap)
                 /\ s_put' = put_drop_oldest(s_put, Contents(snap, m.lists))
    /\ s_step' = s_step + 1
    /\ lastOp' = "snap_tick"
    /\ UNCHANGED othersS

\* _broadcast_loop: sim.queue.get_nowait() and the broadcast of the snapshot
SnapDrain ==
    /\ s_queue # <<>>
    /\ s_queue' = Tail(s_queue)
    /\ s_put' = Tail(s_put)
    /\ lastOp' = "snap_drain"
    /\ UNCHANGED <<s_step, s_lists, s_trades, s_events>>
    /\ UNCHANGED othersS

\* WorldSimModel.__init__: no partner, no trade, no event, and an empty queue
IdleSnapshots ==
    /\ s_step = 0
    /\ s_lists = [rid \in RegionIds |-> <<>>]
    /\ s_trades = [rid \in RegionIds |-> 0]
    /\ s_events = <<>>
    /\ s_queue = <<>>
    /\ s_put = <<>>


----------------------------------------------------------------------------
\* The websocket endpoints (backend/api/websocket.py and worldsim-backend
\* app/main.py): one client per endpoint, whose sends to the client succeed.
\* A text frame is what json.loads and the handler make of it: not JSON, JSON
\* that is not an object (a list, a number), an object whose type the endpoint
\* does not know, or one of the types it knows.

MaxMessages == 3

Endpoints == {"backend", "worldsim"}

MalformedKinds == {"invalid_json", "not_an_object", "unknown_type"}

\* the message types the handler of endpoint ep has a branch for
KnownTypes(ep) ==
    IF ep = "backend" THEN {"request_state", "control"}
    ELSE {"start", "stop", "reset", "get_state", "ping"}

\* the outcome of one pass of the receive loop: the reply sent, whether the
\* handler goes on to the next receive, and whether the connection stays in
\* the subscriber set

\* backend/api/websocket.py, websocket_endpoint 74-84 and handle_client_message
backend_receive(kind) ==
    IF kind = "invalid_json"
    THEN \* json.loads raises JSONDecodeError, caught at line 81
         [reply |-> "error", open |-> TRUE, subscribed |-> TRUE]
    ELSE IF kind = "not_an_object"
    THEN \* message.get raises AttributeError, which no except clause names
         [reply |-> "none", open |-> FALSE, subscribed |-> TRUE]
    ELSE IF kind = "request_state"
    THEN [reply |-> "state_update", open |-> TRUE, subscribed |-> TRUE]
    ELSE IF kind = "control"
    THEN [reply |-> "none", open |-> TRUE, subscribed |-> TRUE]
    ELSE [reply |-> "error", open |-> TRUE, subscribed |-> TRUE]

\* worldsim-backend app/main.py, websocket_endpoint 236-266
worldsim_receive(kind) ==
    IF kind \in {"invalid_json", "not_an_object"}
    THEN \* json.loads or msg.get raises inside the try: except Exception at
         \* line 264 calls manager.disconnect and the handler returns
         [reply |-> "none", open |-> FALSE, subscribed |-> FALSE]
    ELSE IF kind \in {"start", "stop"}
    THEN [reply |-> "control_ack", open |-> TRUE, subscribed |-> TRUE]
    ELSE IF kind = "reset"
    THEN [reply |-> "simulation_reset", open |-> TRUE, subscribed |-> TRUE]
    ELSE IF kind = "get_state"
    THEN [reply |-> "state_update", open |-> TRUE, subscribed |-> TRUE]
    ELSE IF kind = "ping"
    THEN [reply |-> "pong", open |-> TRUE, subscribed |-> TRUE]
    ELSE \* no branch and no else: nothing is sent
         [reply |-> "none", open |-> TRUE, subscribed |-> TRUE]

\* websocket_endpoint of ep, from accept to the first receive
EndpointConnect ==
    /\ \E ep \in Endpoints :
          /\ ~e_open[ep]
          /\ e_open' = [e_open EXCEPT ![ep] = TRUE]
          /\ e_subscribed' = [e_subscribed EXCEPT ![ep] = TRUE]
          /\ e_msg' = [e_msg EXCEPT ![ep] = "none"]
          /\ e_reply' = [e_reply EXCEPT ![ep] =
                            IF ep = "backend" THEN "initial_state" ELSE "state_update"]
    /\ lastOp' = "endpoint_connect"
    /\ UNCHANGED e_received
    /\ UNCHANGED othersE

\* websocket_endpoint of ep: one receive_text and what follows it
EndpointReceive ==
    /\ e_received < MaxMessages
    /\ \E ep \in Endpoints, kind \in MalformedKinds \cup KnownTypes("backend") \cup KnownTypes("worldsim") :
          /\ e_open[ep]
          /\ kind \in MalformedKinds \cup KnownTypes(ep)
          /\ LET r == IF ep = "backend" THEN backend_receive(kind)
                      ELSE worldsim_receive(kind)
             IN  /\ e_open' = [e_open EXCEPT ![ep] = r.open]
                 /\ e_subscribed' = [e_subscribed EXCEPT ![ep] = r.subscribed]
                 /\ e_reply' = [e_reply EXCEPT ![ep] = r.reply]
          /\ e_msg' = [e_msg EXCEPT ![ep] = kind]
    /\ e_received' = e_received + 1
    /\ lastOp' = "endpoint_receive"
    /\ UNCHANGED othersE

\* websocket_endpoint of ep: receive_text raises WebSocketDisconnect
EndpointDisconnect ==
    /\ \E ep \in Endpoints :
          /\ e_open[ep]
          /\ e_open' = [e_open EXCEPT ![ep] = FALSE]
          /\ e_subscribed' = [e_subscribed EXCEPT ![ep] = FALSE]
          /\ e_msg' = [e_msg EXCEPT ![ep] = "none"]
          /\ e_reply' = [e_reply EXCEPT ![ep] = "none"]
    /\ lastOp' = "endpoint_disconnect"
    /\ UNCHANGED e_received
    /\ UNCHANGED othersE

\* no client has connected
IdleEndpoints ==
    /\ e_open = [ep \in Endpoints |-> FALSE]
    /\ e_subscribed = [ep \in Endpoints |-> FALSE]
    /\ e_msg = [ep \in Endpoints |-> "none"]
    /\ e_reply = [ep \in Endpoints |-> "none"]
    /\ e_received = 0


----------------------------------------------------------------------------
\* One Population on its own (population.py): any count up to its capacity,
\* any health, and the calls tick, emigrate and immigrate with arguments
\* drawn from small sets.

MaxResidents == 4
MaxMigrants == 5
MaxCalls == 2

\* the default rates but for a starvation death rate above 1 (the mutation of
\* DefaultPopulationConfig)
DeadlyPopulationConfig ==
    [initial_per_region |-> 50, max_per_region |-> 500,
     base_birth_rate |-> 20, base_death_rate |-> 10,
     starvation_death_rate |-> 1300, dehydration_death_rate |-> 80,
     health_decay_no_food |-> 30, health_decay_no_water |-> 50,
     health_regen_rate |-> 10, migration_threshold |-> 300,
     migration_rate |-> 100]

\* PopulationConfig with the default rates of config.py
DefaultPopulationConfig ==
    [initial_per_region |-> 50, max_per_region |-> 500,
     base_birth_rate |-> 20, base_death_rate |-> 10,
     starvation_death_rate |-> 50, dehydration_death_rate |-> 80,
     health_decay_no_food |-> 30, health_decay_no_water |-> 50,
     health_regen_rate |-> 10, migration_threshold |-> 300,
     migration_rate |-> 100]

PopulationConfigs == {DefaultPopulationConfig, ScarceConfig.population}

HealthValues == {0, 20, 500, Scale}

NoArgs == [n |-> 0, food_available |-> 0, water_available |-> 0,
           food_needed |-> 0, water_needed |-> 0]

NoReturn == [actual |-> 0, food_consumed |-> 0, water_consumed |-> 0]

InitPopulation ==
    /\ \E cap \in 1..MaxResidents, n \in 0..MaxResidents, h \in HealthValues :
          /\ n <= cap
          /\ p_pop = NewPopulation(n, IF n = 0 THEN 0 ELSE h, cap)
    /\ p_prev = p_pop
    /\ p_arg = NoArgs
    /\ p_ret = NoReturn
    /\ p_calls = 0

\* population.tick(food_available, water_available, food_needed, water_needed, cfg)
PopTick ==
    /\ p_calls < MaxCalls
    /\ p_calls' = p_calls + 1
    /\ \E fa \in {0, Scale, MaxResidents * Scale}, wa \in {0, Scale, MaxResidents * Scale},
          fn \in {500, Max(1, p_pop.count) * Scale}, pcfg \in PopulationConfigs :
          LET wn == p_pop.count * Scale
              r  == tick(p_pop, fa, wa, fn, wn, pcfg)
          IN  /\ p_pop' = r[1]
              /\ p_ret' = [actual |-> 0, food_consumed |-> r[2], water_consumed |-> r[3]]
              /\ p_arg' = [n |-> 0, food_available |-> fa, water_available |-> wa,
                           food_needed |-> fn, water_needed |-> wn]
    /\ p_prev' = p_pop
    /\ lastOp' = "tick"
    /\ UNCHANGED othersP

\* population.emigrate(n)
PopEmigrate ==
    /\ p_calls < MaxCalls
    /\ p_calls' = p_calls + 1
    /\ \E n \in 0..MaxMigrants :
          LET e == emigrate(p_pop, n)
          IN  /\ p_pop' = e[1]
              /\ p_ret' = [NoReturn EXCEPT !.actual = e[2]]
              /\ p_arg' = [NoArgs EXCEPT !.n = n]
    /\ p_prev' = p_pop
    /\ lastOp' = "emigrate"
    /\ UNCHANGED othersP

\* population.immigrate(n)
PopImmigrate ==
    /\ p_calls < MaxCalls
    /\ p_calls' = p_calls + 1
    /\ \E n \in 0..MaxMigrants :
          /\ p_pop' = immigrate(p_pop, n)
          /\ p_arg' = [NoArgs EXCEPT !.n = n]
    /\ p_ret' = NoReturn
    /\ p_prev' = p_pop
    /\ lastOp' = "immigrate"
    /\ UNCHANGED othersP

\* no Population has been made
IdlePopulation ==
    /\ p_pop = NewPopulation(0, 0, 0)
    /\ p_prev = NewPopulation(0, 0, 0)
    /\ p_arg = NoArgs
    /\ p_ret = NoReturn
    /\ p_calls = 0


----------------------------------------------------------------------------
\* The climate phase of WorldModel.step (world.py 163-175, climate.py) on one
\* region, tick after tick: maybe_spawn_event, tick_region and the update of
\* the two pools.  c_hist and c_removed record, for each event, the tick it
\* was spawned in and the intensity it had in each tick it contributed to.

MaxClimateTicks == 3
MaxDuration == 3
MaxStored == 2

ClimateKey == <<0, 0>>

\* the draws of maybe_spawn_event explored: none, or a drought or a flood of
\* severity 0.4 or 0.8 lasting 1..MaxDuration ticks
ClimateDraws ==
    {NoSpawn} \cup
    {NewClimateEvent(n, sv, d) : n \in SpawnKinds, sv \in {400, 800},
                                 d \in 1..MaxDuration}

\* the history of the events that tick_region keeps, in the order of the list
RECURSIVE KeptHistory(_, _, _)
KeptHistory(evs, hist, i) ==
    IF i > Len(evs) THEN <<>>
    ELSE LET t == event_tick(evs[i])
             h == IF t[2] THEN [hist[i] EXCEPT !.used = Append(@, intensity(evs[i]))]
                  ELSE hist[i]
         IN  (IF is_active(t[1]) THEN <<h>> ELSE <<>>) \o KeptHistory(evs, hist, i + 1)

\* the events that tick_region drops, each with its history
DroppedHistory(evs, hist) ==
    {[event |-> event_tick(evs[i])[1],
      born  |-> hist[i].born,
      used  |-> IF event_tick(evs[i])[2]
                THEN Append(hist[i].used, intensity(evs[i])) ELSE hist[i].used] :
       i \in {j \in DOMAIN evs : ~is_active(event_tick(evs[j])[1])}}

InitClimate ==
    /\ c_regs = [k \in {ClimateKey} |-> NewRegion(ScarceConfig, k, "plains", "arid", 0)]
    /\ c_evs = [k \in {ClimateKey} |-> <<>>]
    /\ c_hist = <<>>
    /\ c_removed = {}
    /\ c_prev_regs = c_regs
    /\ c_prev_evs = <<>>
    /\ c_tick = 0

\* WorldModel.step, phase 3, for the one region
ClimateStep ==
    /\ c_tick < MaxClimateTicks
    /\ \E sp \in ClimateDraws :
          /\ sp # NoSpawn => Len(c_evs[ClimateKey]) < MaxStored
          /\ LET spawned == maybe_spawn_event(c_evs[ClimateKey], sp)
                 hist    == IF sp = NoSpawn THEN c_hist
                            ELSE Append(c_hist, [born |-> c_tick + 1, used |-> <<>>])
                 ph      == ClimatePhase(c_regs, c_evs, [k \in {ClimateKey} |-> sp])
             IN  /\ c_regs' = ph.regions
                 /\ c_evs' = ph.events
                 /\ c_hist' = KeptHistory(spawned, hist, 1)
                 /\ c_removed' = DroppedHistory(spawned, hist)
                 /\ c_prev_evs' = spawned
    /\ c_prev_regs' = c_regs
    /\ c_tick' = c_tick + 1
    /\ lastOp' = "climate_step"
    /\ UNCHANGED othersC

\* no region and no climate system
IdleClimate ==
    /\ c_regs = [k \in {} |-> 0]
    /\ c_evs = [k \in {} |-> 0]
    /\ c_hist = <<>>
    /\ c_removed = {}
    /\ c_prev_regs = [k \in {} |-> 0]
    /\ c_prev_evs = <<>>
    /\ c_tick = 0


----------------------------------------------------------------------------
\* PresidentAgent (worldsim-backend agents.py), the agent with the Q-table:
\* what __init__ and step do to the exploration rate self._eps and to
\* self._last_action.  RLConfig (backend/config.py) gives the configured
\* epsilon_decay and epsilon_min.

MaxDecisions == 3

ACTION_DIM == 4

\* exploration rates are counted in units of 0.00001, so that 0.10 * 0.999
\* is exact
EpsScale == 100000

\* RLConfig.epsilon 0.15, epsilon_decay 0.999 and epsilon_min 0.01
RLConfig == [epsilon |-> 15000, epsilon_decay |-> 99900, epsilon_min |-> 1000]

\* PresidentAgent.__init__: self._eps = 0.10, self._last_action = None (-1)
InitAgents ==
    /\ g_eps = [rid \in RegionIds |-> 10000]
    /\ g_prev_eps = g_eps
    /\ g_last_action = [rid \in RegionIds |-> -1]
    /\ g_decisions = [rid \in RegionIds |-> 0]
    /\ g_actor = 0

\* PresidentAgent.step of president rid: the action is a random one when
\* np.random.random() < self._eps and the engine's otherwise; the Q-table
\* update and _execute_action do not assign self._eps
PresidentStep ==
    /\ \E rid \in RegionIds, explore \in BOOLEAN, action \in 0..(ACTION_DIM - 1) :
          /\ g_decisions[rid] < MaxDecisions
          /\ explore => g_eps[rid] > 0
          /\ g_last_action' = [g_last_action EXCEPT ![rid] = action]
          /\ g_decisions' = [g_decisions EXCEPT ![rid] = @ + 1]
          /\ g_actor' = rid
    /\ g_prev_eps' = g_eps
    /\ g_eps' = g_eps
    /\ lastOp' = "president_step"
    /\ UNCHANGED othersG

\* no president has been made
IdleAgents ==
    /\ g_eps = [rid \in {} |-> 0]
    /\ g_prev_eps = [rid \in {} |-> 0]
    /\ g_last_action = [rid \in {} |-> 0]
    /\ g_decisions = [rid \in {} |-> 0]
    /\ g_actor = 0


----------------------------------------------------------------------------
\* WorldSimModel.step (worldsim-backend agents.py) on the regions' resources:
\* the presidents' actions, regeneration, baseline consumption and the weather
\* engine.  A region's resources are the array <<water, food, energy, land>>
\* of Resources.as_array, in thousandths; infrastructure and morale are in
\* thousandths too.

MaxWeatherSteps == 2

\* np.random.randint(4, 10) draws 4..9; the shortest and the longest are kept
WeatherDurations == {4, 9}

\* REGION_CONFIGS, in the order of the dictionary: initial_resources,
\* regen_rates, base_morale
REGION_CONFIGS ==
    << [initial_resources |-> <<270000, 100000, 60000, 120000>>,
        regen_rates |-> <<3000, 1000, 400, 100>>, base_morale |-> 700],
       [initial_resources |-> <<110000, 270000, 80000, 60000>>,
        regen_rates |-> <<1000, 3000, 600, 100>>, base_morale |-> 650],
       [initial_resources |-> <<60000, 100000, 270000, 100000>>,
        regen_rates |-> <<400, 800, 3000, 100>>, base_morale |-> 600],
       [initial_resources |-> <<100000, 60000, 90000, 270000>>,
        regen_rates |-> <<800, 400, 800, 500>>, base_morale |-> 550],
       [initial_resources |-> <<150000, 150000, 150000, 150000>>,
        regen_rates |-> <<1200, 1200, 1200, 200>>, base_morale |-> 750] >>

\* Resources.clamp(lo, hi)
resources_clamp(r, lo, hi) == [i \in 1..4 |-> Max(lo, Min(hi, r[i]))]

\* Resources.total
resources_total(r) == r[1] + r[2] + r[3] + r[4]

\* np.argmax and np.argmin: the first index of the extreme value
argmax(a) ==
    CHOOSE i \in 1..4 : /\ \A j \in 1..4 : a[j] <= a[i]
                        /\ \A j \in 1..(i - 1) : a[j] < a[i]

argmin(a) ==
    CHOOSE i \in 1..4 : /\ \A j \in 1..4 : a[j] >= a[i]
                        /\ \A j \in 1..(i - 1) : a[j] > a[i]

\* PresidentAgent._execute_trade, lines 238-281, on the resources
trade_resources(rs, rid) ==
    LET my_res   == rs[rid]
        send_idx == argmax(my_res)
        recv_idx == argmin(my_res)
        score(o) == rs[o][recv_idx] - my_res[recv_idx]
        gains    == {o \in RegionIds \ {rid} :
                       /\ rs[o][send_idx] > 80000 /\ my_res[recv_idx] < 100000
                       /\ rs[o][recv_idx] > 30000
                       /\ score(o) > -1000}
        trade_vol == 12000
    IN  IF gains = {} THEN rs
        ELSE LET best_rid == CHOOSE o \in gains :
                                /\ \A q \in gains : score(q) <= score(o)
                                /\ \A q \in gains : q < o => score(q) < score(o)
                 recv_arr == rs[best_rid]
             IN  IF my_res[send_idx] < trade_vol THEN rs
                 ELSE LET mine1 == [my_res EXCEPT ![send_idx] = my_res[send_idx] - trade_vol]
                          oth1  == [recv_arr EXCEPT ![send_idx] = recv_arr[send_idx] + trade_vol]
                          mine2 == [mine1 EXCEPT ![recv_idx] = my_res[recv_idx] + Mul(trade_vol, 800)]
                          oth2  == [oth1 EXCEPT ![recv_idx] = recv_arr[recv_idx] - Mul(trade_vol, 800)]
                      IN  [rs EXCEPT ![rid] = mine2, ![best_rid] = oth2]

\* the victim of PresidentAgent._execute_steal: the first other region of the
\* smallest total
steal_victim(rs, rid) ==
    CHOOSE o \in RegionIds \ {rid} :
        /\ \A q \in RegionIds \ {rid} : resources_total(rs[q]) >= resources_total(rs[o])
        /\ \A q \in RegionIds \ {rid} :
              q < o => resources_total(rs[q]) > resources_total(rs[o])

\* PresidentAgent._execute_steal, lines 289-306, on the resources
steal_resources(rs, rid) ==
    LET weakest   == steal_victim(rs, rid)
        vic_arr   == rs[weakest]
        steal_idx == argmin(vic_arr)
        steal_vol == Min(10000, Mul(vic_arr[steal_idx], 150))
        after     == [rs EXCEPT ![weakest][steal_idx] = vic_arr[steal_idx] - steal_vol]
    IN  [after EXCEPT ![rid][steal_idx] = after[rid][steal_idx] + Mul(steal_vol, 700)]

\* PresidentAgent._execute_action of president rid with action a
\* (0 hold, 1 trade, 2 expand, 3 steal) on [res, infra, morale]
president_action(w, rid, a) ==
    IF a = 0
    THEN [w EXCEPT !.res[rid] = <<Mul(@[1], 980), Mul(@[2], 980),
                                  Mul(@[3], 980), Mul(@[4], 999)>>]
    ELSE IF a = 1 THEN [w EXCEPT !.res = trade_resources(w.res, rid)]
    ELSE IF a = 2
    THEN IF w.res[rid][3] >= 8000
         THEN [w EXCEPT !.res[rid][3] = @ - 8000,
                        !.infra[rid] = Min(@ + 20, 2500)]
         ELSE w
    ELSE [w EXCEPT !.res = steal_resources(w.res, rid),
                   !.morale[steal_victim(w.res, rid)] = @ - 50]

\* self.schedule.step(): the presidents act in the order drawn
RECURSIVE presidents_step(_, _, _)
presidents_step(w, order, acts) ==
    IF order = <<>> THEN w
    ELSE presidents_step(president_action(w, Head(order), acts[Head(order)]),
                         Tail(order), acts)

\* WorldSimModel.step, 2: regeneration with the infrastructure multiplier
regenerate_regions(w) ==
    [w EXCEPT !.res = [rid \in RegionIds |->
        resources_clamp([i \in 1..4 |->
            w.res[rid][i] + Mul(REGION_CONFIGS[rid].regen_rates[i], w.infra[rid])],
            0, 300000)]]

\* WorldSimModel.step, 3: baseline consumption
baseline_consumption(w) ==
    [w EXCEPT !.res = [rid \in RegionIds |->
        resources_clamp(<<w.res[rid][1] - 800, w.res[rid][2] - 800,
                          w.res[rid][3] - 600, w.res[rid][4]>>, 0, 300000)]]

\* one resource of every region, or of one region, times factor
scale_resource(rs, rids, i, factor) ==
    [rid \in RegionIds |->
        IF rid \in rids THEN [rs[rid] EXCEPT ![i] = Mul(@, factor)] ELSE rs[rid]]

\* WeatherEngine._apply_ongoing
_apply_ongoing(w, engine) ==
    IF engine.active_event = "drought"
    THEN [w EXCEPT !.res = scale_resource(w.res, RegionIds, 1, 980)]
    ELSE IF engine.active_event = "solar_flare"
    THEN [w EXCEPT !.res = scale_resource(w.res, RegionIds, 3, 1005)]
    ELSE IF engine.active_event = "blight"
    THEN [w EXCEPT !.res = scale_resource(w.res, {engine.affected_region} \cap RegionIds, 2, 970)]
    ELSE IF engine.active_event = "rain"
    THEN [w EXCEPT !.res = scale_resource(w.res, {engine.affected_region} \cap RegionIds, 1, 1010)]
    ELSE w

\* WeatherEngine._apply_initial
_apply_initial(w, event, region) ==
    IF event = "drought"
    THEN [w EXCEPT !.res = scale_resource(w.res, RegionIds, 1, 800)]
    ELSE IF event = "solar_flare"
    THEN [w EXCEPT !.res = scale_resource(scale_resource(w.res, RegionIds, 3, 1200),
                                          RegionIds, 2, 900)]
    ELSE IF event = "blight"
    THEN [w EXCEPT !.res = scale_resource(w.res, {region}, 2, 700)]
    ELSE IF event = "rain"
    THEN [w EXCEPT !.res = scale_resource(w.res, {region}, 1, 1150)]
    ELSE [w EXCEPT !.morale = [rid \in RegionIds |-> Min(1000, w.morale[rid] + 50)]]

NoWeather == [active_event |-> "none", affected_region |-> 0, ticks_remaining |-> 0]

\* what np.random gives WeatherEngine.tick: no trigger, or an event, a region
\* and a duration
WeatherDraws ==
    {[trigger |-> FALSE, event |-> "none", region |-> 0, ticks |-> 0]}
      \cup {[trigger |-> TRUE, event |-> e, region |-> r, ticks |-> t] :
              e \in {"drought", "solar_flare", "blight", "rain", "calm"},
              r \in RegionIds, t \in WeatherDurations}

\* WeatherEngine.tick: returns [w, engine]
weather_tick(w, engine, draw) ==
    IF engine.ticks_remaining > 0
    THEN LET left == engine.ticks_remaining - 1
         IN  [w |-> _apply_ongoing(w, engine),
              engine |-> IF left = 0 THEN NoWeather
                         ELSE [engine EXCEPT !.ticks_remaining = left]]
    ELSE IF draw.trigger
    THEN [w |-> _apply_initial(w, draw.event, draw.region),
          engine |-> [active_event |-> draw.event, affected_region |-> draw.region,
                      ticks_remaining |-> draw.ticks]]
    ELSE [w |-> w, engine |-> engine]

\* WorldSimModel.step, 5: morale = round(clip(mean(r / 200) * 0.7 + morale * 0.3, 0, 1), 3)
morale_update(w) ==
    [w EXCEPT !.morale = [rid \in RegionIds |->
        Max(0, Min(1000,
            (((resources_total(w.res[rid]) \div 4) \div 200) * 700) \div 1000
              + Mul(w.morale[rid], 300)))]]

\* WorldSimModel.__init__ and _init_regions
InitWeather ==
    /\ w_resources = [rid \in RegionIds |-> REGION_CONFIGS[rid].initial_resources]
    /\ w_infrastructure = [rid \in RegionIds |-> 1000]
    /\ w_morale = [rid \in RegionIds |-> REGION_CONFIGS[rid].base_morale]
    /\ w_engine = NoWeather
    /\ w_step_count = 0

\* WorldSimModel.step
WeatherStep ==
    /\ w_step_count < MaxWeatherSteps
    /\ \E order \in ActivationOrders, acts \in [RegionIds -> 0..(ACTION_DIM - 1)],
          draw \in WeatherDraws :
          LET w0 == [res |-> w_resources, infra |-> w_infrastructure, morale |-> w_morale]
              w1 == presidents_step(w0, order, acts)
              w2 == regenerate_regions(w1)
              w3 == baseline_consumption(w2)
              t4 == weather_tick(w3, w_engine, draw)
              w5 == morale_update(t4.w)
          IN  /\ w_resources' = w5.res
              /\ w_infrastructure' = w5.infra
              /\ w_morale' = w5.morale
              /\ w_engine' = t4.engine
    /\ w_step_count' = w_step_count + 1
    /\ lastOp' = "weather_step"
    /\ UNCHANGED othersH

\* no WorldSimModel has been made
IdleWeather ==
    /\ w_resources = << >>
    /\ w_infrastructure = << >>
    /\ w_morale = << >>
    /\ w_engine = NoWeather
    /\ w_step_count = 0


----------------------------------------------------------------------------
\* A WorldModel of the default SimConfig (config.py) on a row of
\* MaxDefaultWidth cells, some ticks into a run: each region has a terrain,
\* any of a few counts from 1 to its capacity, a health, and pools that are
\* full or hold what the regeneration phase has just added.  DefaultStep is
\* WorldModel.step.

MaxDefaultWidth == 2
MaxDefaultTicks == 1

\* SimConfig(): every default of config.py, on the bounded grid
DefaultSimConfig ==
    [grid       |-> [width |-> MaxDefaultWidth, height |-> 1],
     resources  |-> [food_max |-> 1000 * Scale, food_regen |-> 5 * Scale,
                     water_max |-> 1000 * Scale, water_regen |-> 5 * Scale],
     population |-> DefaultPopulationConfig,
     rl         |-> [actions |-> <<"focus_food", "focus_water", "balance_resources",
                                   "trade", "migrate_out", "stockpile">>],
     climate    |-> [min_severity |-> 200, max_severity |-> 800,
                     min_duration |-> 3, max_duration |-> 12,
                     climate_zones |-> <<"tropical", "arid", "temperate",
                                         "continental", "polar">>],
     num_agents |-> 20,
     collapse_threshold |-> 800]

\* the terrains, the governors' actions and the draws of maybe_spawn_event
\* explored in the default world
DefaultTerrains == {"desert", "plains"}

DefaultActions == {"migrate_out", "stockpile"}

DefaultSpawnDraws ==
    {NoSpawn, NewClimateEvent("drought", DefaultSimConfig.climate.max_severity,
                              DefaultSimConfig.climate.min_duration)}

\* the counts explored for a region of capacity cap: one resident, the fewest
\* that lose one to the highest death rate, the initial count, half the
\* capacity, one below the capacity and the capacity
DefaultCounts(cap) ==
    {1, 7, Min(DefaultSimConfig.population.initial_per_region, cap),
     cap \div 2, cap - 1, cap}

\* the states the region at key k can be in
DefaultRegions(k) ==
    UNION {LET built == NewRegion(DefaultSimConfig, k, t, "temperate", 0)
           IN  {[built EXCEPT
                   !.population = NewPopulation(n, h, built.population.max_capacity),
                   !.resources.food.current_value =
                       IF full THEN @ ELSE built.resources.food.regeneration_rate,
                   !.resources.water.current_value =
                       IF full THEN @ ELSE built.resources.water.regeneration_rate,
                   !.governor = k[1] + 1] :
                 n \in DefaultCounts(built.population.max_capacity),
                 h \in {0, Scale}, full \in BOOLEAN} :
           t \in DefaultTerrains}

InitDefault ==
    /\ d_regions \in [KeySet(DefaultSimConfig) ->
                        UNION {DefaultRegions(k) : k \in KeySet(DefaultSimConfig)}]
    /\ \A k \in KeySet(DefaultSimConfig) : d_regions[k] \in DefaultRegions(k)
    /\ d_agents = [i \in 1..MaxDefaultWidth |-> NewGovernor(i - 1, <<i - 1, 0>>, 0)]
    /\ d_events = NoEvents(DefaultSimConfig)
    /\ d_tick = 0
    /\ d_running \in BOOLEAN
    /\ d_ended = FALSE

\* WorldModel.step
DefaultStep ==
    \/ /\ step_returns(d_running, d_ended)
       /\ lastOp' = "default_step_skipped"
       /\ UNCHANGED <<d_regions, d_agents, d_events, d_tick, d_running, d_ended>>
       /\ UNCHANGED othersD
    \/ /\ ~step_returns(d_running, d_ended)
       /\ d_tick < MaxDefaultTicks
       /\ \E acts \in [DOMAIN d_agents -> DefaultActions],
             spawns \in [KeySet(DefaultSimConfig) -> DefaultSpawnDraws] :
            LET p1 == AgentPhase(d_regions, d_agents, acts)
                p2 == PopulationPhase(p1.regions, DefaultSimConfig.population)
                p3 == ClimatePhase(p2, d_events, spawns)
                p4 == RegenPhase(p3.regions)
                p5 == _process_migration(p4, p1.agents, DefaultSimConfig)
                over == EndReached(p5, DefaultSimConfig)
            IN  /\ d_tick' = d_tick + 1
                /\ d_agents' = p1.agents
                /\ d_events' = p3.events
                /\ d_regions' = p5
                /\ d_ended' = (d_ended \/ over)
                /\ d_running' = (d_running /\ ~over)
       /\ lastOp' = "default_step"
       /\ UNCHANGED othersD

\* no default world has been made
IdleDefault ==
    /\ d_regions = << >>
    /\ d_agents = << >>
    /\ d_events = << >>
    /\ d_tick = 0
    /\ d_running = FALSE
    /\ d_ended = FALSE


----------------------------------------------------------------------------
\* broadcast_state and broadcast_tick_loop (backend/api/websocket.py) with the
\* suspension of each send: while the loop `for client in subscriptions` is
\* suspended in `await client.send_text`, websocket_endpoint can add a
\* subscriber or discard one.  The iterator of a set remembers the size of
\* the set at its creation and raises RuntimeError in next() when the size
\* differs; broadcast_state catches exceptions of the send only, and
\* broadcast_tick_loop catches none.

MaxChurnClients == 3
MaxBroadcasts == 2

ChurnClients == 1..MaxChurnClients

NoIteration == [started |-> {}, used |-> 0, done |-> {}, current |-> 0,
                disconnected |-> {}]

\* next() of the set iterator: the outcomes [raised, stop, client]
set_iter_next(subs, it) ==
    IF Cardinality(subs) # it.used
    THEN {[raised |-> TRUE, stop |-> FALSE, client |-> 0]}
    ELSE {[raised |-> FALSE, stop |-> FALSE, client |-> c] : c \in subs \ it.done}
         \cup (IF (subs \cap it.started) \subseteq it.done
               THEN {[raised |-> FALSE, stop |-> TRUE, client |-> 0]}
               ELSE {})

\* broadcast_state from an outcome of next(): the send to the next client
\* starts, or the loop is over and the disconnected are discarded, or the
\* RuntimeError leaves broadcast_state and ends broadcast_tick_loop
ChurnAdvance(it, nx) ==
    IF nx.raised
    THEN /\ b_loop' = "dead"
         /\ b_iter' = it
         /\ UNCHANGED <<b_subscriptions, b_broadcasts>>
    ELSE IF nx.stop
    THEN /\ b_loop' = "sleep"
         /\ b_iter' = it
         /\ b_subscriptions' = b_subscriptions \ it.disconnected
         /\ b_broadcasts' = b_broadcasts + 1
    ELSE /\ b_loop' = "send"
         /\ b_iter' = [it EXCEPT !.current = nx.client]
         /\ UNCHANGED <<b_subscriptions, b_broadcasts>>

\* broadcast_tick_loop: the sleep is over; with subscribers, broadcast_state
\* starts and suspends in its first send
ChurnWake ==
    /\ b_loop = "sleep"
    /\ b_broadcasts < MaxBroadcasts
    /\ IF b_subscriptions = {}
       THEN UNCHANGED <<b_subscriptions, b_iter, b_received, b_loop, b_broadcasts>>
       ELSE LET it == [NoIteration EXCEPT !.started = b_subscriptions,
                                          !.used = Cardinality(b_subscriptions)]
            IN  /\ b_received' = {}
                /\ \E nx \in set_iter_next(b_subscriptions, it) : ChurnAdvance(it, nx)
    /\ lastOp' = "churn_wake"
    /\ UNCHANGED othersB

\* the pending send returns or raises, and the loop goes on to next()
ChurnSendDone ==
    /\ b_loop = "send"
    /\ \E ok \in BOOLEAN :
          LET it == [b_iter EXCEPT
                       !.done = @ \cup {b_iter.current},
                       !.disconnected = IF ok THEN @ ELSE @ \cup {b_iter.current},
                       !.current = 0]
          IN  /\ b_received' = IF ok THEN b_received \cup {b_iter.current} ELSE b_received
              /\ \E nx \in set_iter_next(b_subscriptions, it) : ChurnAdvance(it, nx)
    /\ lastOp' = "churn_sent"
    /\ UNCHANGED othersB

\* websocket_endpoint: subscriptions.add(websocket)
ChurnConnect ==
    /\ \E ws \in ChurnClients \ b_subscriptions :
          b_subscriptions' = b_subscriptions \cup {ws}
    /\ lastOp' = "churn_connect"
    /\ UNCHANGED <<b_iter, b_received, b_loop, b_broadcasts>>
    /\ UNCHANGED othersB

\* websocket_endpoint, except WebSocketDisconnect: subscriptions.discard(websocket)
ChurnDisconnect ==
    /\ \E ws \in b_subscriptions : b_subscriptions' = b_subscriptions \ {ws}
    /\ lastOp' = "churn_disconnect"
    /\ UNCHANGED <<b_iter, b_received, b_loop, b_broadcasts>>
    /\ UNCHANGED othersB

\* subscriptions = set(), broadcast_tick_loop in its first sleep
IdleChurn ==
    /\ b_subscriptions = {}
    /\ b_iter = NoIteration
    /\ b_received = {}
    /\ b_loop = "sleep"
    /\ b_broadcasts = 0

----------------------------------------------------------------------------
\* ClimateEngine of backend/simulation.py: the event of the nation model.  The
\* draws of random.randint and random.choice range over what the calls can
\* return; None is the string "None".

\* _trigger: random.choice(["Drought", "SolarFlare", "Blight"])
EngineEventTypes == {"Drought", "SolarFlare", "Blight"}

\* _trigger: random.randint(6, 14)
EngineDurations == 6..14

\* __init__: random.randint(35, 60)
EngineFirstEventIn == 35..60

\* tick: random.randint(40, 70)
EngineNextEventIn == 40..70

\* the draws one tick() may consume
EngineDraws ==
    [choice : EngineEventTypes, duration : EngineDurations,
     next_in : EngineNextEventIn]

\* a tick that does not trigger consumes no draw
UnusedDraw == [choice |-> "Drought", duration |-> 6, next_in |-> 40]

\* ClimateEngine.__init__ with the draw first_in
engine_init(first_in) ==
    [event_type |-> "None", duration |-> 0, next_event_in |-> first_in]

\* ClimateEngine._trigger
engine_trigger(e, draw) ==
    [e EXCEPT !.event_type = draw.choice, !.duration = draw.duration]

\* a tick that lets the event outlive its duration (the mutation of engine_tick)
engine_tick_keeps_type(e, draw) ==
    IF e.duration > 0
    THEN [e EXCEPT !.duration = e.duration - 1]
    ELSE IF e.next_event_in - 1 <= 0
         THEN [engine_trigger(e, draw) EXCEPT !.next_event_in = draw.next_in]
         ELSE [e EXCEPT !.next_event_in = e.next_event_in - 1]

\* ClimateEngine.tick
engine_tick(e, draw) ==
    IF e.duration > 0
    THEN [e EXCEPT !.duration = e.duration - 1,
                   !.event_type = IF e.duration - 1 = 0 THEN "None"
                                  ELSE e.event_type]
    ELSE IF e.next_event_in - 1 <= 0
         THEN [engine_trigger(e, draw) EXCEPT !.next_event_in = draw.next_in]
         ELSE [e EXCEPT !.next_event_in = e.next_event_in - 1]

\* the engine as one record
EngineNow ==
    [event_type |-> ce_event_type, duration |-> ce_duration,
     next_event_in |-> ce_next_event_in]

\* WorldModel.step, its call self.climate.tick(self.tick): ce_prev is the
\* engine before the tick, ce_triggered whether the tick ran _trigger, ce_drawn
\* the duration of the last trigger, and ce_active the number of ticks of that
\* event after which it was active
EngineTick ==
    LET fired == ce_duration = 0 /\ ce_next_event_in - 1 <= 0
    IN  \E draw \in IF fired THEN EngineDraws ELSE {UnusedDraw} :
        LET e == engine_tick(EngineNow, draw)
        IN  /\ ce_event_type' = e.event_type
            /\ ce_duration' = e.duration
            /\ ce_next_event_in' = e.next_event_in
            /\ ce_prev' = EngineNow
            /\ ce_triggered' = fired
            /\ ce_drawn' = IF fired THEN draw.duration ELSE ce_drawn
            /\ ce_active' = IF fired THEN 1
                            ELSE IF e.event_type # "None" THEN ce_active + 1
                            ELSE ce_active
            /\ lastOp' = "engine_tick"
            /\ UNCHANGED othersK

\* no engine
IdleEngine ==
    /\ ce_event_type = "None" /\ ce_duration = 0 /\ ce_next_event_in = 0
    /\ ce_prev = engine_init(0)
    /\ ce_triggered = FALSE /\ ce_drawn = 0 /\ ce_active = 0

\* WorldModel.__init__: a new ClimateEngine
InitEngine ==
    \E first_in \in EngineFirstEventIn :
        /\ ce_event_type = "None" /\ ce_duration = 0
        /\ ce_next_event_in = first_in
        /\ ce_prev = engine_init(first_in)
        /\ ce_triggered = FALSE /\ ce_drawn = 0 /\ ce_active = 0

----------------------------------------------------------------------------
\* PresidentStrategy of backend/ai_strategy.py: IgnisStrategy and
\* TerranovaStrategy.  Observations are in thousandths; random.random() and
\* _weighted_choice are draws.

MaxIgnisCalls     == 6
MaxTerranovaCalls == 10

\* ACTIONS of ai_strategy.py
StrategyActions == {"Conserve", "Trade", "Expand", "Conflict"}

\* deque(maxlen=8)
HistoryMaxlen == 8

\* self._history.append(action) on a deque of maxlen 8
history_append(h, a) ==
    IF Len(h) < HistoryMaxlen THEN Append(h, a)
    ELSE Append(SubSeq(h, 2, Len(h)), a)

\* list(self._history)[-n:]
history_recent(h, n) ==
    IF Len(h) <= n THEN h ELSE SubSeq(h, Len(h) - n + 1, Len(h))

\* PresidentStrategy._last_n(action, n)
_last_n(h, a, n) ==
    Cardinality({i \in DOMAIN history_recent(h, n) : history_recent(h, n)[i] = a})

\* the default n of _last_n
LastNDefault == 3

\* PresidentStrategy._own_avg
_own_avg(obs) ==
    (obs.own_water + obs.own_food + obs.own_energy + obs.own_land) \div 4

\* the draws of one _decide: _noise(0.3) and _weighted_choice, whose weights
\* are all positive for every value of _oscillate()
StrategyDraws == [noise : BOOLEAN, choice : StrategyActions]

\* IgnisStrategy._decide
ignis_decide(obs, h, draw) ==
    IF obs.weather_state > 650 /\ obs.own_energy > 500 THEN "Expand"
    ELSE IF obs.own_energy > 500 /\ obs.own_land > 350
            /\ _last_n(h, "Expand", LastNDefault) < 4 THEN "Expand"
    ELSE IF obs.own_land < 300 /\ obs.crime_level < 600
            /\ _last_n(h, "Conflict", LastNDefault) < 2 THEN "Conflict"
    ELSE IF obs.own_food < 250 THEN "Trade"
    ELSE IF obs.own_energy < 200 THEN "Conserve"
    ELSE IF obs.nb_avg_resources > 600
            /\ _last_n(h, "Conflict", LastNDefault) < 2 THEN "Conflict"
    ELSE draw.choice

\* a strike rule without its guard on the last decisions (the mutation of
\* terranova_decide)
terranova_decide_unguarded(obs, h, patience, draw) ==
    LET p == patience + 1
    IN  IF _own_avg(obs) < 300 THEN [action |-> "Trade", patience |-> 0]
        ELSE IF p % 14 < 6
             THEN [action |-> IF _own_avg(obs) < 550 THEN "Trade" ELSE "Conserve",
                   patience |-> p]
        ELSE IF obs.nb_avg_resources > 350 /\ obs.crime_level < 850
             THEN [action |-> "Conflict", patience |-> p]
        ELSE IF _last_n(h, "Conflict", LastNDefault) >= 3
             THEN [action |-> "Trade", patience |-> p]
        ELSE IF obs.own_land > 800 /\ draw.noise
             THEN [action |-> "Expand", patience |-> p]
        ELSE [action |-> draw.choice, patience |-> p]

\* TerranovaStrategy._decide: the action and the new _patience
terranova_decide(obs, h, patience, draw) ==
    LET p == patience + 1
    IN  IF _own_avg(obs) < 300 THEN [action |-> "Trade", patience |-> 0]
        ELSE IF p % 14 < 6
             THEN [action |-> IF _own_avg(obs) < 550 THEN "Trade" ELSE "Conserve",
                   patience |-> p]
        ELSE IF obs.nb_avg_resources > 350 /\ obs.crime_level < 850
                /\ _last_n(h, "Conflict", LastNDefault) < 3
             THEN [action |-> "Conflict", patience |-> p]
        ELSE IF _last_n(h, "Conflict", LastNDefault) >= 3
             THEN [action |-> "Trade", patience |-> p]
        ELSE IF obs.own_land > 800 /\ draw.noise
             THEN [action |-> "Expand", patience |-> p]
        ELSE [action |-> draw.choice, patience |-> p]

\* observations of NationAgent._build_obs that take every branch of
\* IgnisStrategy._decide
IgnisObservations ==
    [own_energy : {100, 400, 800}, own_land : {200, 600}, own_food : {200, 500},
     crime_level : {400, 700}, nb_avg_resources : {500, 700},
     weather_state : {0, 850}]

\* observations that take every branch of TerranovaStrategy._decide
TerranovaObservations ==
    [own_water : {100, 700}, own_food : {100, 700}, own_energy : {100},
     own_land : {500, 900}, crime_level : {500, 900},
     nb_avg_resources : {300, 500}]

\* the condition of the energy rule of IgnisStrategy._decide, with no solar
\* flare
IgnisFuelled(obs) ==
    obs.own_energy > 500 /\ obs.own_land > 350 /\ obs.weather_state <= 650

\* PresidentStrategy.get_action of an IgnisStrategy
IgnisGetAction ==
    /\ st_calls < MaxIgnisCalls
    /\ \E obs \in IgnisObservations :
         \E a \in {ignis_decide(obs, st_history, d) : d \in StrategyDraws} :
            /\ st_history' = history_append(st_history, a)
            /\ st_fuelled' = (st_fuelled /\ IgnisFuelled(obs))
    /\ st_calls' = st_calls + 1
    /\ lastOp' = "ignis_get_action"
    /\ UNCHANGED st_patience
    /\ UNCHANGED othersY

\* PresidentStrategy.get_action of a TerranovaStrategy
TerranovaGetAction ==
    /\ st_calls < MaxTerranovaCalls
    /\ \E obs \in TerranovaObservations :
         \E r \in {terranova_decide(obs, st_history, st_patience, d) :
                       d \in StrategyDraws} :
            /\ st_history' = history_append(st_history, r.action)
            /\ st_patience' = r.patience
    /\ st_calls' = st_calls + 1
    /\ lastOp' = "terranova_get_action"
    /\ UNCHANGED st_fuelled
    /\ UNCHANGED othersY

\* PresidentStrategy.__init__ and TerranovaStrategy.__init__
IdleStrategy ==
    /\ st_history = <<>> /\ st_patience = 0 /\ st_calls = 0 /\ st_fuelled = TRUE

----------------------------------------------------------------------------
\* The nation model of backend/simulation.py: NationAgent and WorldModel.step.
\* Amounts are in ten-thousandths; the resources of a nation are the tuple
\* <<water, food, energy, land>>, in the order of the dict.  population is left
\* out: no rule reads it.  The action of a nation is an input, as the
\* strategies of ai_strategy.py can return each of the four.

MaxNationSteps == 1

\* one unit of the nation model is 1 / NScale
NScale == 10000

\* np.clip(x, 0.0, 1.0)
nation_clip(x) == Max(0, Min(NScale, x))

\* _BASE_DECAY
BASE_DECAY == <<38, 45, 60, 10>>

\* random.uniform(lo, hi): one of its two ends, chosen by the draw u
Unif(lo, hi, u) == IF u = 0 THEN lo ELSE hi

\* the draws of one NationAgent.step: the gauss shock of the crime rate (one
\* standard deviation either way), the end every uniform draw takes, the
\* outcome of the conflict and the choice of the trade partner; the micro-noise
\* of the decay is drawn as 0
NationDraws ==
    [shock : {-120, 120}, u : {0, 1}, success : BOOLEAN, pick : {1, 2}]

\* ClimateEngine.apply_to_resources
apply_to_resources(e, r) ==
    IF e.event_type = "Drought" THEN [r EXCEPT ![1] = Max(0, r[1] - 250)]
    ELSE IF e.event_type = "SolarFlare"
         THEN [r EXCEPT ![3] = Min(NScale, r[3] + 180)]
    ELSE IF e.event_type = "Blight" THEN [r EXCEPT ![2] = Max(0, r[2] - 220)]
    ELSE r

\* NationAgent._apply_decay
_apply_decay(n, e, d) ==
    LET r == [k \in 1..4 |-> n.resources[k] - BASE_DECAY[k]]
        drift == (8 * (n.attractor - n.crime_rate)) \div 1000
    IN  [n EXCEPT !.resources = apply_to_resources(e, r),
                  !.crime_rate = nation_clip(n.crime_rate + drift + d.shock)]

\* NationAgent._do_conserve
_do_conserve(n, d) ==
    [n EXCEPT !.resources = [k \in 1..4 |-> n.resources[k] + Unif(50, 375, d.u)],
              !.crime_rate = n.crime_rate - Unif(50, 150, d.u)]

\* NationAgent._do_expand
_do_expand(n, d) ==
    IF n.resources[3] < 1200 \/ n.resources[4] < 1000 THEN _do_conserve(n, d)
    ELSE [n EXCEPT !.resources = <<n.resources[1],
                                   n.resources[2] - Unif(150, 300, d.u),
                                   n.resources[3] - Unif(300, 600, d.u),
                                   n.resources[4] - Unif(100, 250, d.u)>>,
                   !.crime_rate = n.crime_rate + Unif(30, 120, d.u)]

\* the neighbours of nation i, in the order of model.agents
Neighbours(w, i) == SelectSeq([k \in DOMAIN w |-> k], LAMBDA k : k # i)

\* NationAgent._do_trade of nation i with the partner the draw picks
_do_trade(w, i, d) ==
    LET nb == Neighbours(w, i)
        j == nb[d.pick]
        own_min_k == argmin(w[i].resources)
        own_max_k == argmax(w[i].resources)
        part_max_k == argmax(w[j].resources)
        energy_cost == IF w[j].tribe = w[i].tribe THEN 425 ELSE 500
        gain == Unif(400, 900, d.u)
        cost == Unif(300, 700, d.u)
        r1 == [w[i].resources EXCEPT ![3] = Max(0, w[i].resources[3] - energy_cost)]
        r2 == [r1 EXCEPT ![own_min_k] = Min(NScale, r1[own_min_k] + gain)]
        p1 == [w[j].resources EXCEPT
                  ![part_max_k] = Max(0, w[j].resources[part_max_k] - (cost * 6) \div 10)]
        p2 == [p1 EXCEPT ![own_max_k] = Min(NScale, p1[own_max_k] + (cost * 55) \div 100)]
    IN  [w EXCEPT ![i].resources = r2,
                  ![i].crime_rate = w[i].crime_rate - Unif(30, 100, d.u),
                  ![j].resources = p2]

\* _do_conflict: min(neighbours, key = energy + crime_rate * 0.5), the first
\* of the smallest
conflict_target(w, i) ==
    LET nb == Neighbours(w, i)
        key(k) == w[k].resources[3] + w[k].crime_rate \div 2
    IN  nb[CHOOSE x \in DOMAIN nb :
              /\ \A y \in DOMAIN nb : key(nb[y]) >= key(nb[x])
              /\ \A y \in 1..(x - 1) : key(nb[y]) > key(nb[x])]

\* NationAgent._do_conflict of nation i
_do_conflict(w, i, d) ==
    LET t == conflict_target(w, i)
        stolen_k == argmax(w[t].resources)
        steal_amt == Unif(400, 1200, d.u)
    IN  IF d.success
        THEN [w EXCEPT
                ![t].resources[stolen_k] = Max(0, w[t].resources[stolen_k] - steal_amt),
                ![i].resources[stolen_k] =
                    Min(NScale, w[i].resources[stolen_k] + (steal_amt * 8) \div 10),
                ![t].crime_rate = w[t].crime_rate + Unif(150, 400, d.u),
                ![i].crime_rate = w[i].crime_rate + Unif(50, 200, d.u)]
        ELSE [w EXCEPT
                ![i].resources[3] = w[i].resources[3] - Unif(200, 500, d.u),
                ![i].crime_rate = w[i].crime_rate + Unif(100, 300, d.u)]

\* NationAgent._apply_action
_apply_action(w, i, action, d) ==
    IF action = "Conserve" THEN [w EXCEPT ![i] = _do_conserve(w[i], d)]
    ELSE IF action = "Trade" THEN _do_trade(w, i, d)
    ELSE IF action = "Expand" THEN [w EXCEPT ![i] = _do_expand(w[i], d)]
    ELSE _do_conflict(w, i, d)

\* NationAgent._apply_energy_entropy
_apply_energy_entropy(n) ==
    IF n.crime_rate > 7000
    THEN [n EXCEPT !.resources[3] =
                      Max(0, n.resources[3] - (n.resources[3] * 5) \div 100)]
    ELSE n

\* NationAgent._clamp
_clamp(n) ==
    [n EXCEPT !.resources = [k \in 1..4 |-> nation_clip(n.resources[k])],
              !.crime_rate = nation_clip(n.crime_rate)]

\* NationAgent.step of nation i with the action its strategy returned
nation_step(w, i, e, action, d) ==
    LET w1 == [w EXCEPT ![i] = [_apply_decay(w[i], e, d) EXCEPT !.last_action = action]]
        w2 == _apply_action(w1, i, action, d)
        w3 == [w2 EXCEPT ![i] = _clamp(_apply_energy_entropy(w2[i]))]
    IN  w3

\* one nation of NATION_PROFILES
Nation(id, tribe, r, crime, attractor) ==
    [id |-> id, tribe |-> tribe, resources |-> r, crime_rate |-> crime,
     attractor |-> attractor, last_action |-> "Conserve"]

\* WorldModel.__init__ with three of the five NATION_PROFILES
NewWorld ==
    <<Nation("AQUILONIA", "IRON", <<9000, 5500, 2000, 6000>>, 1800, 1800),
      Nation("VERDANTIS", "LEAF", <<2000, 9000, 5800, 6500>>, 1400, 1400),
      Nation("TERRANOVA", "IRON", <<2000, 5000, 6000, 9100>>, 6100, 6100)>>

\* the same three nations as a run of the program had them after 4586 steps
LateWorld ==
    <<Nation("AQUILONIA", "IRON", <<10000, 10000, 10000, 10000>>, 0, 1800),
      Nation("VERDANTIS", "LEAF", <<9970, 8890, 8720, 9960>>, 32, 1400),
      Nation("TERRANOVA", "IRON", <<9010, 9390, 670, 9430>>, 9604, 6100)>>

\* One turn of WorldModel.step: shuffle_do("step") calls NationAgent.step of
\* each nation once, in any order.  The first turn of a step follows
\* self.climate.tick; the last one ends the step with self.tick += 1.
NationTurn ==
    /\ n_tick < MaxNationSteps
    /\ \E i \in DOMAIN n_nations \ n_acted :
       \E action \in StrategyActions :
       \E d \in NationDraws :
          LET e == IF n_acted = {} THEN engine_tick(n_climate, UnusedDraw)
                   ELSE n_climate
              last == n_acted \cup {i} = DOMAIN n_nations
          IN  /\ n_climate' = e
              /\ n_nations' = nation_step(n_nations, i, e, action, d)
              /\ n_acted' = IF last THEN {} ELSE n_acted \cup {i}
              /\ n_tick' = IF last THEN n_tick + 1 ELSE n_tick
              /\ lastOp' = IF last THEN "world_step" ELSE "nation_turn"
    /\ UNCHANGED othersN

\* no nation model
IdleNations ==
    /\ n_nations = <<>> /\ n_acted = {} /\ n_tick = 0
    /\ n_climate = engine_init(0)

\* a WorldModel between two steps: new, or late in a run; no event, or a
\* drought with ticks left
InitNations ==
    /\ n_nations \in {NewWorld, LateWorld}
    /\ n_acted = {} /\ n_tick = 0
    /\ n_climate \in {engine_init(35),
                       [event_type |-> "Drought", duration |-> 6,
                        next_event_in |-> 40]}

----------------------------------------------------------------------------
\* Specifications

\* the values of a subsystem's variables in the specifications of the others
IdleResource == res = NewResource(0, 0, 0)

IdleWorld ==
    /\ cfg = ScarceConfig
    /\ current_tick = 0
    /\ running = FALSE
    /\ ended = FALSE
    /\ epoch = 0
    /\ regions = [k \in {} |-> 0]
    /\ agents = <<>>
    /\ active_events = [k \in {} |-> 0]

\* every subsystem but g in the state it has before anything runs
IdleExcept(g) ==
    /\ IF g = "resource" THEN TRUE ELSE IdleResource
    /\ IF g = "world" THEN TRUE ELSE IdleWorld
    /\ IF g = "async" THEN TRUE ELSE InitAsync
    /\ IF g = "threaded" THEN TRUE ELSE IdleThreaded /\ t_limit = 0
    /\ IF g = "fanout" THEN TRUE ELSE IdleFanout
    /\ IF g = "migration" THEN TRUE ELSE IdleMigration
    /\ IF g = "snapshots" THEN TRUE ELSE IdleSnapshots
    /\ IF g = "endpoints" THEN TRUE ELSE IdleEndpoints
    /\ IF g = "population" THEN TRUE ELSE IdlePopulation
    /\ IF g = "climate" THEN TRUE ELSE IdleClimate
    /\ IF g = "agents" THEN TRUE ELSE IdleAgents
    /\ IF g = "weather" THEN TRUE ELSE IdleWeather
    /\ IF g = "default" THEN TRUE ELSE IdleDefault
    /\ IF g = "churn" THEN TRUE ELSE IdleChurn
    /\ IF g = "engine" THEN TRUE ELSE IdleEngine
    /\ IF g = "strategy" THEN TRUE ELSE IdleStrategy
    /\ IF g = "nations" THEN TRUE ELSE IdleNations

InitR == lastOp = "init" /\ InitResource /\ IdleExcept("resource")

InitW == lastOp = "init" /\ InitWorld /\ IdleExcept("world")

InitA == lastOp = "init" /\ InitAsync /\ IdleExcept("async")

InitT == /\ lastOp = "init" /\ IdleThreaded /\ t_limit = MaxTicksControl
         /\ IdleExcept("threaded")

InitH == /\ lastOp = "init" /\ AfterLifespan /\ t_limit = MaxTicksHandoff
         /\ IdleExcept("threaded")

InitF == lastOp = "init" /\ IdleFanout /\ IdleExcept("fanout")

InitM == lastOp = "init" /\ InitMigration /\ IdleExcept("migration")

InitS == lastOp = "init" /\ IdleSnapshots /\ IdleExcept("snapshots")

NextSnapshots == SnapTick \/ SnapDrain

InitE == lastOp = "init" /\ IdleEndpoints /\ IdleExcept("endpoints")

NextEndpoints == EndpointConnect \/ EndpointReceive \/ EndpointDisconnect

InitP == lastOp = "init" /\ InitPopulation /\ IdleExcept("population")

NextPopulation == PopTick \/ PopEmigrate \/ PopImmigrate

InitC == lastOp = "init" /\ InitClimate /\ IdleExcept("climate")

InitG == lastOp = "init" /\ InitAgents /\ IdleExcept("agents")

InitWth == lastOp = "init" /\ InitWeather /\ IdleExcept("weather")

InitD == lastOp = "init" /\ InitDefault /\ IdleExcept("default")

InitB == lastOp = "init" /\ IdleChurn /\ IdleExcept("churn")

NextChurn == ChurnWake \/ ChurnSendDone \/ ChurnConnect \/ ChurnDisconnect

NextRestart ==
    \/ \E th \in 1..MaxThreads : RunSimulation(th)
    \/ QueuePut \/ BroadcasterGet \/ BroadcasterSend
    \/ HandleWsConnect \/ HandleWsDisconnect
    \/ StartAfterStop \/ StopSimulation
    \/ ControlStop \/ ControlStart

InitK == lastOp = "init" /\ InitEngine /\ IdleExcept("engine")

InitY == lastOp = "init" /\ IdleStrategy /\ IdleExcept("strategy")

InitN == lastOp = "init" /\ InitNations /\ IdleExcept("nations")

NextFanout == FanBroadcastState \/ FanBroadcaster \/ FanManagerBroadcast \/ FanSubscribe

NextResource == ResConsume \/ ResRegenerate \/ ResApplyEvent

NextWorld ==
    Step \/ Start \/ RouteStart \/ WsControlStart \/ Pause \/ Reset \/ GetState

NextAsync ==
    \/ \E t \in 1..MaxTasks : ASimLoop(t)
    \/ ABroadcastLoop \/ AStart \/ AStop \/ AReset \/ AConnect \/ ADisconnect

NextThreaded ==
    \/ \E th \in 1..MaxThreads : RunSimulation(th)
    \/ QueuePut \/ BroadcasterGet \/ BroadcasterSend
    \/ HandleWsConnect \/ HandleWsDisconnect
    \/ StartSimulation \/ StopSimulation \/ ControlStop \/ ControlStart

NextHandoff ==
    \/ RunSimulation(1)
    \/ QueuePut \/ BroadcasterGet \/ BroadcasterSend
    \/ HandleWsConnect \/ HandleWsDisconnect

SpecResource == InitR /\ [][NextResource]_vars

SpecWorld == InitW /\ [][NextWorld]_vars

SpecAsync == InitA /\ [][NextAsync]_vars

SpecThreaded == InitT /\ [][NextThreaded]_vars

SpecHandoff == InitH /\ [][NextHandoff]_vars

SpecFanout == InitF /\ [][NextFanout]_vars

SpecMigration == InitM /\ [][MigrateRegion]_vars

SpecMigrationPass == InitM /\ [][MigrationPass]_vars

SpecSnapshots == InitS /\ [][NextSnapshots]_vars

SpecEndpoints == InitE /\ [][NextEndpoints]_vars

SpecPopulation == InitP /\ [][NextPopulation]_vars

SpecClimate == InitC /\ [][ClimateStep]_vars

SpecAgents == InitG /\ [][PresidentStep]_vars

SpecWeather == InitWth /\ [][WeatherStep]_vars

SpecDefault == InitD /\ [][DefaultStep]_vars

SpecChurn == InitB /\ [][NextChurn]_vars

SpecRestart == InitT /\ [][NextRestart]_vars

SpecEngine == InitK /\ [][EngineTick]_vars

SpecIgnis == InitY /\ [][IgnisGetAction]_vars

SpecTerranova == InitY /\ [][TerranovaGetAction]_vars

SpecNations == InitN /\ [][NationTurn]_vars

Spec == SpecWorld

----------------------------------------------------------------------------
\* Claims

\* C1: a Resource created with 0 <= initial_value <= max_value and a
\* non-negative regeneration_rate keeps 0 <= current_value <= max_value after
\* any sequence of consume(a) with a >= 0, regenerate() and apply_event(d).
C1_ResourceInRange ==
    0 <= res.current_value /\ res.current_value <= res.max_value

\* C2: in every region, after the Population.tick, emigrate and immigrate calls
\* of any number of steps, 0 <= health <= 1 and count >= 0.
C2_PopulationInRange ==
    \A k \in DOMAIN regions :
        /\ 0 <= regions[k].population.health
        /\ regions[k].population.health <= Scale
        /\ regions[k].population.count >= 0

\* C2 witness: after a step, a region has lost all its health and residents and
\* another one has received migrants
C2_Witness ==
    /\ lastOp = "step"
    /\ \E k \in DOMAIN regions :
          regions[k].population.health = 0 /\ regions[k].population.count = 0
    /\ \E k \in DOMAIN regions : regions[k].population.migrants_in > 0

\* C3: step() changes nothing of the world (tick, regions, agents, climate
\* events, running, ended) when it is called with running = false or
\* ended = true, also after a start() that follows the end of the run.
C3_StepIsNoOpWhenStoppedOrEnded ==
    [][(lastOp' \in {"step", "step_skipped"} /\ (~running \/ ended))
          => UNCHANGED worldVars]_vars

\* C3 witness: step() was called on an ended world that start() had set running
C3_Witness == lastOp = "step_skipped" /\ ended /\ running

\* C4: ended is a one-way latch: no step(), start(), pause() or get_state()
\* clears it; only reset() does.
C4_EndedIsLatch == [][(ended /\ lastOp' # "reset") => ended']_vars

\* C4 witness: the world has ended and was paused after that
C4_Witness == ended /\ lastOp = "pause"

\* C5: start() sets running unless ended = true; on an ended world start(),
\* the REST start route and the websocket's control / start leave running false.
C5_StartRefusedWhenEnded ==
    lastOp \in {"start", "route_start", "ws_start"} => (running <=> ~ended)

\* C6: reset() in any state gives tick = 0, running = false, ended = false, no
\* active climate event, and a region grid and agent list built anew: every
\* region is as _build_world makes it and no region or agent object of the
\* world before survives.
C6_ResetRebuilds ==
    [][lastOp' = "reset" =>
         /\ current_tick' = 0 /\ ~running' /\ ~ended'
         /\ \A k \in DOMAIN active_events' : active_events'[k] = <<>>
         /\ DOMAIN regions' = KeySet(cfg)
         /\ \A k \in DOMAIN regions' :
               /\ regions'[k].population.health = Scale
               /\ regions'[k].population.count =
                     Min(cfg.population.initial_per_region,
                         regions'[k].population.max_capacity)
               /\ regions'[k].resources.food.current_value =
                     regions'[k].resources.food.max_value
               /\ regions'[k].resources.water.current_value =
                     regions'[k].resources.water.max_value
               /\ \A j \in DOMAIN regions : regions'[k].oid # regions[j].oid
         /\ Len(agents') = Min(cfg.num_agents, Cardinality(KeySet(cfg)))
         /\ \A i \in DOMAIN agents' :
               /\ agents'[i].last_action = "none"
               /\ \A j \in DOMAIN agents : agents'[i].oid # agents[j].oid]_vars

\* C6 witness: a world rebuilt by reset()
C6_Witness == lastOp = "reset" /\ epoch = 1 /\ current_tick = 0 /\ ~ended

\* C7 as stated: the first tick after a resume sees the state of the moment of
\* the pause; in the threaded runner, a thread that has been resumed after a
\* pause and is about to tick holds the tick counter it had when
\* pause_simulation() was called.
C7_ResumeSeesStateOfPauseCall ==
    \A th \in DOMAIN t_threads :
        (t_resumed[th] /\ t_threads[th].pc = "tick")
            => t_threads[th].tick = t_tick_at_pause[th]

\* C7: pausing discards no state.  In the threaded runner the first tick after
\* resume_simulation() sees the model as it was when pause_simulation() was
\* called, or that model advanced by the one tick that was already past the
\* pause check; the model is never rebuilt or rewound by pause and resume.
C7_ResumeSeesPausedStateOrOneTickMore ==
    \A th \in DOMAIN t_threads :
        (t_resumed[th] /\ t_threads[th].pc = "tick")
            => t_threads[th].tick \in
                  {t_tick_at_pause[th], t_tick_at_pause[th] + 1}

\* C7 witness: a resumed thread is about to take its first tick after the
\* resume, and its model is one tick past the state of the pause call
C7_Witness ==
    /\ t_pause_event
    /\ \E th \in DOMAIN t_threads :
          /\ t_resumed[th] /\ t_threads[th].pc = "tick"
          /\ t_threads[th].tick = t_tick_at_pause[th] + 1

\* C7, WorldModel.pause / WorldModel.start: while the world is not running,
\* nothing but reset() changes the tick, the regions, the agents or the climate
\* events, and pause() and start() themselves leave them alone.
C7_WorldPauseKeepsState ==
    [][((~running \/ lastOp' \in {"pause", "start", "route_start", "ws_start"})
          /\ lastOp' # "reset")
          => UNCHANGED <<current_tick, regions, agents, active_events>>]_vars

\* C7, _stop / _start of the asyncio runner: while sim.running is false nothing
\* but _reset changes the model, and _stop and _start leave it alone.
C7_AsyncStopKeepsState ==
    [][((~a_running \/ lastOp' \in {"a_stop", "a_start"}) /\ lastOp' # "a_reset")
          => UNCHANGED a_model]_vars

\* C8: the queue of the asyncio runner never holds more than its capacity; its
\* snapshots are consecutive in production order and, after a tick, end with
\* the newest one; when more than `capacity` snapshots were produced since the
\* last drain, it holds exactly the `capacity` most recent ones.
C8_QueueKeepsNewest ==
    /\ Len(a_queue) <= QueueMaxsize
    /\ \A i \in 1..(Len(a_queue) - 1) : a_queue[i + 1].seq = a_queue[i].seq + 1
    /\ (a_queue # <<>> /\ a_since_drain > 0) => a_queue[Len(a_queue)].seq = a_produced
    /\ a_since_drain > QueueMaxsize =>
          /\ Len(a_queue) = QueueMaxsize
          /\ \A i \in 1..QueueMaxsize :
                a_queue[i].seq = a_produced - QueueMaxsize + i

\* C8 witness: a tick has just pushed onto a full queue, more than `capacity`
\* snapshots after the last drain
C8_Witness ==
    /\ lastOp = "sim_tick"
    /\ a_since_drain > QueueMaxsize
    /\ Len(a_queue) = QueueMaxsize

\* C9: in the threaded runner the snapshots buffered in the queue and the
\* snapshots waiting to be enqueued never number more than the queue's capacity.
C9_BufferedAndWaitingWithinCapacity ==
    Len(t_queue) + Len(t_pending) <= StateQueueMaxsize

\* C10: when _broadcast_loop sends a state_update to a subscriber and the
\* simulation loop has produced several snapshots since the previous drain, the
\* snapshot sent is the most recently produced one.
C10_DrainSendsLatest ==
    [][(lastOp' = "broadcast" /\ a_since_drain >= 2 /\ a_connections' # {})
          => a_sent'.seq = a_produced]_vars

RECURSIVE TotalCount(_, _)
TotalCount(regs, keys) ==
    IF keys = {} THEN 0
    ELSE LET k == CHOOSE x \in keys : TRUE
         IN  regs[k].population.count + TotalCount(regs, keys \ {k})

\* C12: a transfer of _process_migration creates and destroys no resident:
\* what immigrate adds to the target is what emigrate removed from the source,
\* so the residents of the regions together are as many after as before.
C12_MigrationConserves ==
    lastOp = "migrate_one" =>
        TotalCount(mg_regions, DOMAIN mg_regions) = TotalCount(mg_prev, DOMAIN mg_prev)

\* C13: collapse is permanent: a region whose population count is 0 keeps the
\* count 0 in every later state of the run, whatever the steps and the
\* migration of its neighbours do, until reset().
C13_CollapseIsPermanent ==
    [][\A k \in DOMAIN regions :
          (regions[k].population.count = 0 /\ lastOp' # "reset")
              => (k \in DOMAIN regions' /\ regions'[k].population.count = 0)]_vars

\* the fraction of regions with a population count of 0 is at least the
\* collapse threshold of the configuration
CollapseFractionReached ==
    Cardinality({k \in DOMAIN regions : regions[k].population.count = 0}) * Scale
        >= cfg.collapse_threshold * Cardinality(DOMAIN regions)

\* C14: after every executed step, if the fraction of regions with count 0 is
\* at least collapse_threshold then ended is true and running is false; and
\* ended becomes true in no other way than by such a step.
C14_EndCondition ==
    [][/\ (lastOp' = "step" /\ CollapseFractionReached') => (ended' /\ ~running')
       /\ (~ended /\ ended') => (lastOp' = "step" /\ CollapseFractionReached')]_vars

\* C14 witness: a step has ended the run at the threshold with a region alive
C14_Witness ==
    /\ lastOp = "step" /\ ended /\ ~running
    /\ CollapseFractionReached
    /\ \E k \in DOMAIN regions : regions[k].population.count > 0

C16_StopReleasesThread ==
    \A th \in DOMAIN t_threads :
        (t_stop_event /\ t_threads[th].pc = "wait")
            => pause_wait_returns(t_pause_event)

\* the simulation loop tasks that can still call step()
AdvancingTasks == {t \in DOMAIN a_tasks : a_tasks[t] = "alive"}

\* C17: whatever the interleaving of start, stop and reset with the simulation
\* loop, at most one simulation loop task can advance a model, and it is the
\* task of the running simulation; a step runs on the model that is current,
\* and when _reset has replaced the model no task is left that could step and
\* the new model has not been stepped.
C17_SingleWriter ==
    /\ Cardinality(AdvancingTasks) <= 1
    /\ \A t \in AdvancingTasks : t = a_sim_task /\ a_running
    /\ lastOp = "sim_tick" =>
          /\ a_queue # <<>>
          /\ a_queue[Len(a_queue)].gen = a_model.gen
          /\ a_queue[Len(a_queue)].step = a_model.step_count
    /\ lastOp = "a_reset" => (AdvancingTasks = {} /\ a_model.step_count = 0)

\* C17 witness: after a reset that cancelled a stepping task, a second task
\* steps the new model
C17_Witness ==
    /\ lastOp = "sim_tick"
    /\ a_tasks = <<"cancelled", "alive">>
    /\ a_model.gen = 2
    /\ a_model.step_count = 1
    /\ a_produced > 1

\* C18: a snapshot handed to the queue is immutable: whatever can be read from
\* a queued snapshot (region fields, trade partner lists, climate event list)
\* is what could be read from it when it was put on the queue, whatever steps
\* the model has taken since.
C18_QueuedSnapshotKeepsItsValues ==
    \A i \in DOMAIN s_queue : Contents(s_queue[i], s_lists) = s_put[i]

\* C19: malformed client input never closes the connection: on both websocket
\* endpoints, after a message that cannot be parsed or whose type is not
\* known the client has been sent an error message and the connection is
\* still open and subscribed.
C19_MalformedInputKeepsConnection ==
    \A ep \in Endpoints :
        e_msg[ep] \in MalformedKinds
            => (e_reply[ep] = "error" /\ e_open[ep] /\ e_subscribed[ep])

\* the region at mg_key as the last MigrateRegion found it, and whether
\* _process_migration lets it migrate
MigSource == mg_prev[mg_key]

MigSourceMigrates ==
    /\ MigSource.population.count > 0
    /\ \/ MigSource.population.health < mg_pcfg.migration_threshold
       \/ /\ MigSource.governor # 0
          /\ mg_agents[MigSource.governor].last_action = "migrate_out"

\* the 4-neighbours of the source that were below capacity
MigBelowCapacity ==
    {n \in {<<mg_key[1] - 1, mg_key[2]>>, <<mg_key[1] + 1, mg_key[2]>>,
            <<mg_key[1], mg_key[2] - 1>>, <<mg_key[1], mg_key[2] + 1>>}
          \cap DOMAIN mg_prev :
        mg_prev[n].population.count < mg_prev[n].population.max_capacity}

\* (food + water) / max(1, count) of neighbour n is at most that of neighbour t
MigRatioAtMost(n, t) ==
    (mg_prev[n].resources.food.current_value + mg_prev[n].resources.water.current_value)
        * Max(1, mg_prev[t].population.count)
    <= (mg_prev[t].resources.food.current_value + mg_prev[t].resources.water.current_value)
        * Max(1, mg_prev[n].population.count)

\* C20: whenever a region migrates and at least one of its 4-neighbours is
\* below capacity, the migration is not skipped: the source emigrates and the
\* migrants are given to a below-capacity neighbour whose (food + water) /
\* max(1, count) no other below-capacity neighbour exceeds; every other
\* region, the neighbours at capacity included, is left as it was.
C20_MigrantsGoToBestOpenNeighbour ==
    (lastOp = "migrate_one" /\ MigSourceMigrates /\ MigBelowCapacity # {}) =>
        \E t \in MigBelowCapacity :
            /\ \A n \in MigBelowCapacity : MigRatioAtMost(n, t)
            /\ LET e == emigrate(MigSource.population,
                                 (MigSource.population.count * mg_pcfg.migration_rate)
                                    \div Scale)
               IN  mg_regions = [mg_prev EXCEPT
                                    ![mg_key].population = e[1],
                                    ![t].population = immigrate(@, e[2])]

\* C21: emigrate(n) with n >= 0 removes exactly min(n, count - 1) residents
\* when count >= 1, so that one resident stays, and none when count = 0, and
\* returns the number removed; immigrate(n) adds exactly
\* min(n, max_capacity - count) and never raises count above max_capacity.
C21_EmigrateImmigrateAmounts ==
    /\ lastOp = "emigrate" =>
          /\ p_ret.actual = IF p_prev.count >= 1
                            THEN Min(p_arg.n, p_prev.count - 1) ELSE 0
          /\ p_pop.count = p_prev.count - p_ret.actual
          /\ p_prev.count >= 1 => p_pop.count >= 1
    /\ lastOp = "immigrate" =>
          /\ p_pop.count = p_prev.count + Min(p_arg.n, p_prev.max_capacity - p_prev.count)
          /\ p_pop.count <= p_pop.max_capacity

\* C21 witness: an emigrate that was asked for more than could leave
C21_Witness ==
    /\ lastOp = "emigrate"
    /\ p_prev.count = 3 /\ p_arg.n = MaxMigrants
    /\ p_ret.actual = 2 /\ p_pop.count = 1

\* C22: an event is removed once its remaining duration reaches 0: an event
\* spawned with duration d contributes effects in exactly d consecutive ticks
\* beginning with its spawn tick and is then no longer in the region's list;
\* after every tick_region every stored event has
\* 0 < duration <= initial_duration.
C22_EventLivesItsDuration ==
    /\ Len(c_hist) = Len(c_evs[ClimateKey])
    /\ \A i \in DOMAIN c_evs[ClimateKey] :
          LET e == c_evs[ClimateKey][i]
          IN  /\ 0 < e.duration /\ e.duration <= e.initial_duration
              /\ Len(c_hist[i].used) = e.initial_duration - e.duration
              /\ Len(c_hist[i].used) = c_tick - c_hist[i].born + 1
    /\ \A r \in c_removed :
          /\ r.event.duration = 0
          /\ Len(r.used) = r.event.initial_duration
          /\ Len(r.used) = c_tick - r.born + 1

\* C22 witness: an event of the longest duration has just been removed while
\* a younger one stays
C22_Witness ==
    /\ lastOp = "climate_step"
    /\ \E r \in c_removed : r.event.initial_duration = MaxDuration /\ r.born = 1
    /\ Len(c_evs[ClimateKey]) = 1

\* the intensities an event had in the ticks it has contributed to are as the
\* claim C23 says, for an event of the given severity and initial duration
IntensitiesAsClaimed(used, severity, initial_duration) ==
    /\ \A j \in DOMAIN used :
          /\ used[j] = (severity * (initial_duration - (j - 1))) \div initial_duration
          /\ used[j] >= 0
          /\ j > 1 => used[j] <= used[j - 1]
    /\ Len(used) >= 1 => used[1] = severity
    /\ (initial_duration % 2 = 0 /\ Len(used) > initial_duration \div 2)
          => 2 * used[initial_duration \div 2 + 1] = severity

\* C23: the intensity of an event is severity * duration_remaining /
\* initial_duration: the severity in the tick of spawn, half the severity
\* after half of the initial duration has elapsed, non-increasing over the
\* event's life, and never negative.
C23_IntensityFadesLinearly ==
    /\ \A i \in DOMAIN c_hist :
          IntensitiesAsClaimed(c_hist[i].used, c_evs[ClimateKey][i].severity,
                               c_evs[ClimateKey][i].initial_duration)
    /\ \A r \in c_removed :
          IntensitiesAsClaimed(r.used, r.event.severity, r.event.initial_duration)
    /\ \A i \in DOMAIN c_evs[ClimateKey] :
          /\ intensity(c_evs[ClimateKey][i]) >= 0
          /\ intensity(c_evs[ClimateKey][i]) <= c_evs[ClimateKey][i].severity

\* C23 witness: an event of severity 0.8 and duration 2 has had intensity 0.8
\* and then 0.4
C23_Witness ==
    \E r \in c_removed :
        /\ r.event.initial_duration = 2
        /\ r.used = <<800, 400>>

\* the sum over the events evs of base_effect * intensity for resource res
RECURSIVE SumOfEffects(_, _, _)
SumOfEffects(evs, resource, i) ==
    IF i > Len(evs) THEN 0
    ELSE Mul(CLIMATE_EVENT_EFFECTS[evs[i].name][resource], intensity(evs[i]))
           + SumOfEffects(evs, resource, i + 1)

\* one clamped update of pool r by the summed effect sum
OneClampedUpdate(r, sum) ==
    Max(0, Min(r.max_value, r.current_value + Mul(Mul(sum, r.max_value), 100)))

\* C24: the effects of simultaneous events sum before they are applied: for a
\* region with several active events each pool gets one clamped update by the
\* sum over all those events of base_effect * intensity (times a tenth of the
\* pool's maximum), not one clamped update per event.
C24_EffectsSumBeforeClamp ==
    (lastOp = "climate_step" /\ c_prev_evs # <<>>) =>
        /\ c_regs[ClimateKey].resources.food.current_value =
              OneClampedUpdate(c_prev_regs[ClimateKey].resources.food,
                               SumOfEffects(c_prev_evs, "food", 1))
        /\ c_regs[ClimateKey].resources.water.current_value =
              OneClampedUpdate(c_prev_regs[ClimateKey].resources.water,
                               SumOfEffects(c_prev_evs, "water", 1))

\* C24 witness: a flood and a drought acted together on a full water pool,
\* and the pool is fuller than the flood clamped first and the drought applied
\* after it would have left it
C24_Witness ==
    /\ lastOp = "climate_step"
    /\ Len(c_prev_evs) = 2
    /\ c_prev_evs[1].name = "flood" /\ c_prev_evs[2].name = "drought"
    /\ c_prev_regs[ClimateKey].resources.water.current_value
          = c_prev_regs[ClimateKey].resources.water.max_value
    /\ SumOfEffects(c_prev_evs, "water", 1) < 0
    /\ c_regs[ClimateKey].resources.water.current_value
          > OneClampedUpdate(c_prev_regs[ClimateKey].resources.water,
                             SumOfEffects(<<c_prev_evs[2]>>, "water", 1))

\* C25: a Population.tick call with count > 0, food_available = 0 and
\* food_needed > 0 returns food_consumed = 0 and leaves the health strictly
\* lower than before, unless the health was 0 already, whatever the water
\* supply is.
C25_NoFoodLowersHealth ==
    (/\ lastOp = "tick"
     /\ p_prev.count > 0
     /\ p_arg.food_available = 0
     /\ p_arg.food_needed > 0) =>
        /\ p_ret.food_consumed = 0
        /\ p_prev.health > 0 => p_pop.health < p_prev.health
        /\ p_prev.health = 0 => p_pop.health = 0

\* C25 witness: a healthy population without food and with all the water it
\* needs has lost health
C25_Witness ==
    /\ lastOp = "tick"
    /\ p_prev.count = MaxResidents /\ p_prev.health = Scale
    /\ p_arg.food_available = 0 /\ p_arg.food_needed = MaxResidents * Scale
    /\ p_arg.water_available = MaxResidents * Scale
    /\ p_ret.food_consumed = 0
    /\ p_pop.health < Scale /\ p_pop.health > 0

\* C26: the exploration rate of the tabular agent is non-increasing across
\* consecutive decisions and never below its floor: after each decision
\* epsilon' = max(epsilon_min, epsilon * epsilon_decay).
C26_EpsilonDecaysToFloor ==
    lastOp = "president_step" =>
        /\ g_eps[g_actor] <= g_prev_eps[g_actor]
        /\ g_eps[g_actor] >= RLConfig.epsilon_min
        /\ g_eps[g_actor] = Max(RLConfig.epsilon_min,
               (g_prev_eps[g_actor] * RLConfig.epsilon_decay) \div EpsScale)

\* the two bounds C26 puts on the rate, without the update it names
C26_EpsilonWithinBounds ==
    lastOp = "president_step" =>
        /\ g_eps[g_actor] <= g_prev_eps[g_actor]
        /\ g_eps[g_actor] >= RLConfig.epsilon_min

\* C27: get_state() and get_summary() return the current world state and
\* change none of it: the tick, running, ended, the regions' resources and
\* populations and the active climate events are the same before and after the
\* call, and a second call with no step in between returns an equal snapshot.
C27_GetStateReadsOnly ==
    [][lastOp' = "get_state" =>
          /\ UNCHANGED <<current_tick, running, ended, regions, agents, active_events>>
          /\ world_get_state' = world_get_state
          /\ world_get_summary' = world_get_summary
          /\ world_get_state'.tick = current_tick
          /\ world_get_state'.total_population = SumCounts(regions, DOMAIN regions)]_vars

C27_Witness ==
    /\ lastOp = "get_state"
    /\ current_tick > 0
    /\ world_get_state.climate_events # << >>
    /\ \E k \in DOMAIN regions : regions[k].population.count > 0

\* C28: in the asyncio model every region's water, food, energy and land lie
\* in [0, 300] in every state observable after step() returns, for every
\* weather event triggered or ongoing.
C28_ResourcesWithinBounds ==
    lastOp = "weather_step" =>
        \A rid \in DOMAIN w_resources : \A i \in 1..4 :
            /\ w_resources[rid][i] >= 0
            /\ w_resources[rid][i] <= 300000

\* the lower bound of C28 alone
C28_ResourcesNotNegative ==
    lastOp = "weather_step" =>
        \A rid \in DOMAIN w_resources : \A i \in 1..4 : w_resources[rid][i] >= 0

\* C29: under the default SimConfig no region that has residents loses them
\* all: a tick never kills every resident and emigrate leaves one, so every
\* region's count stays at least 1 and ended stays false.
C29_NoRegionDiesOut ==
    /\ \A k \in DOMAIN d_regions : d_regions[k].population.count >= 1
    /\ ~d_ended

C29_Witness ==
    /\ lastOp = "default_step"
    /\ d_tick > 0
    /\ \E k \in DOMAIN d_regions :
          /\ d_regions[k].population.deaths > 0
          /\ d_regions[k].population.migrants_out > 0
          /\ d_regions[k].population.health < DefaultSimConfig.population.migration_threshold
          /\ d_regions[k].population.count >= 1

\* C30: under the default SimConfig the count of a region never exceeds its
\* max_capacity: neither the births of a tick nor immigrate raise it above.
C30_CountWithinCapacity ==
    \A k \in DOMAIN d_regions :
        d_regions[k].population.count <= d_regions[k].population.max_capacity

C30_Witness ==
    /\ lastOp = "default_step"
    /\ \E k \in DOMAIN d_regions :
          /\ d_regions[k].population.migrants_in > 0
          /\ d_regions[k].population.count = d_regions[k].population.max_capacity
    /\ \E k \in DOMAIN d_regions : d_regions[k].population.births > 0

\* the residents that left and that arrived in each region during a pass of
\* _process_migration over keys[i..], counted from the changes of the counts
RECURSIVE MigrationTally(_, _, _, _, _, _)
MigrationTally(regs, ags, keys, i, pcfg, tally) ==
    IF i > Len(keys) THEN tally
    ELSE LET after == MigrateOne(regs, ags, keys[i], pcfg)
             moved(k) == after[k].population.count - regs[k].population.count
         IN  MigrationTally(after, ags, keys, i + 1, pcfg,
                [k \in DOMAIN regs |->
                    [arrived |-> tally[k].arrived + Max(0, moved(k)),
                     left    |-> tally[k].left + Max(0, -moved(k))]])

PassTally ==
    MigrationTally(mg_prev, mg_agents, RegionKeys(ScarceConfig), 1, mg_pcfg,
                   [k \in DOMAIN mg_prev |-> [arrived |-> 0, left |-> 0]])

\* C31: after the migration pass of a step, every region's migrants_in is the
\* number of residents that immigrated into it during the pass (the sum when
\* several neighbours migrated into it, 0 when none did) and its migrants_out
\* the number that emigrated from it.
C31_MigrationCountersAccurate ==
    lastOp = "migration_pass" =>
        \A k \in DOMAIN mg_regions :
            /\ mg_regions[k].population.migrants_in = PassTally[k].arrived
            /\ mg_regions[k].population.migrants_out = PassTally[k].left

\* C32: after _reset() every state_update that _broadcast_loop sends carries a
\* snapshot of the model made by the reset, never one enqueued before it.
C32_BroadcastIsOfCurrentModel ==
    lastOp = "broadcast" => a_sent.gen = a_model.gen

\* C33: a subscriber connecting or disconnecting while broadcast_state is
\* suspended in a send does not abort the broadcast: broadcast_tick_loop keeps
\* running, and when the broadcast is over every subscriber that was connected
\* at its start and whose send succeeded has received the message.
C33_ChurnDoesNotAbortBroadcast ==
    /\ b_loop # "dead"
    /\ (lastOp = "churn_sent" /\ b_loop = "sleep") =>
          (b_iter.started \cap b_subscriptions) \subseteq b_received


\* C34: in the threaded runner, between pause_simulation() (control "stop",
\* which also clears _is_running) and the next resume_simulation(), a thread
\* executes and enqueues at most one further tick, the one that was already in
\* progress or past the pause check: its model is never more than one tick
\* beyond the tick it had when pause_simulation() was called, and a thread that
\* has taken that tick is not past _pause_event.wait() again.
C34_AtMostOneTickAfterPause ==
    ~t_is_running =>
        \A th \in DOMAIN t_threads :
            /\ t_threads[th].tick <= t_tick_at_pause[th] + 1
            /\ t_threads[th].tick = t_tick_at_pause[th] + 1
                   => t_threads[th].pc \in {"while", "wait", "done"}
            /\ \A i \in DOMAIN t_pending :
                   t_pending[i].thread = th
                      => t_pending[i].tick <= t_tick_at_pause[th] + 1

\* C34 witness: paused, the thread has executed and enqueued the one tick that
\* was past the pause check and is now blocked in _pause_event.wait()
C34_Witness ==
    /\ ~t_is_running /\ ~t_pause_event
    /\ \E th \in DOMAIN t_threads :
          /\ t_threads[th].pc = "wait"
          /\ t_threads[th].tick = t_tick_at_pause[th] + 1
          /\ \E i \in DOMAIN t_pending :
                t_pending[i] = get_state(th, t_tick_at_pause[th] + 1)


\* C35: in the threaded runner, when start_simulation() is only called first
\* or after a stop_simulation(), at most one thread is inside the loop of
\* run_simulation (past the test of _stop_event, waiting on the pause event,
\* or stepping its model and putting the snapshot) at any time: the thread of
\* the previous start never runs alongside the thread of the new one.
C35_AtMostOneThreadTicking ==
    Cardinality({th \in DOMAIN t_threads :
                    t_threads[th].pc \in {"wait", "check", "tick"}}) <= 1


\* C37: ClimateEngine is a two-state machine with at most one event at a time.
\* After every tick(), event_type is not None exactly when duration > 0; a tick
\* that triggers an event started from an engine with no event; and an event
\* triggered with duration d is active after d ticks in all (the tick of the
\* trigger and the d - 1 that follow) and is cleared by the next one.
C37_TwoStateMachine ==
    /\ (ce_event_type # "None") <=> (ce_duration > 0)
    /\ ce_triggered => (ce_prev.event_type = "None" /\ ce_prev.duration = 0)
    /\ ce_event_type # "None" => ce_active + ce_duration = ce_drawn + 1
    /\ (lastOp = "engine_tick" /\ ce_prev.event_type # "None"
            /\ ce_event_type = "None") => ce_active = ce_drawn

\* C37 witness: the tick that clears an event triggered with the longest
\* duration, after the event was active for that many ticks
C37_Witness ==
    /\ lastOp = "engine_tick"
    /\ ce_prev.event_type = "Blight" /\ ce_event_type = "None"
    /\ ce_drawn = 14 /\ ce_active = 14 /\ ce_duration = 0


\* C38: TerranovaStrategy.get_action never returns Conflict when its three
\* preceding decisions were all Conflict: no four decisions in a row are
\* Conflict.
C38_NoFourthConflict ==
    \A i \in 1..(Len(st_history) - 3) :
        ~(\A j \in i..(i + 3) : st_history[j] = "Conflict")

\* C38 witness: three Conflicts in a row, and the decision after them is not
\* a Conflict
C38_Witness ==
    /\ lastOp = "terranova_get_action"
    /\ Len(st_history) >= 4
    /\ \A j \in (Len(st_history) - 3)..(Len(st_history) - 1) :
          st_history[j] = "Conflict"
    /\ st_history[Len(st_history)] # "Conflict"

\* C39: when every observation has own_energy > 0.5, own_land > 0.35 and
\* weather_state <= 0.65, IgnisStrategy.get_action does not return Expand once
\* its four preceding decisions were all Expand: no five decisions in a row
\* are Expand.
C39_NoFifthExpand ==
    st_fuelled =>
        \A i \in 1..(Len(st_history) - 4) :
            ~(\A j \in i..(i + 4) : st_history[j] = "Expand")


\* C36: in the nation model, after every WorldModel.step() the crime_rate of
\* every nation lies in [0, 1], for every activation order and every action
\* taken, a nation that another nation's Conflict hit after its own turn
\* included.
C36_CrimeRateInUnitInterval ==
    lastOp = "world_step" =>
        \A i \in DOMAIN n_nations :
            /\ n_nations[i].crime_rate >= 0
            /\ n_nations[i].crime_rate <= NScale

====
